---- MODULE Spec2Model ----
(***************************************************************************)
(* Model of the rentEst investment pro-forma engine (src/new/test.py) and  *)
(* of the legacy per-step scripts (src/clacs.py, ...).                     *)
(*                                                                         *)
(* Numbers.  The code computes in IEEE doubles and rounds every number to  *)
(* two decimals when it writes a CSV cell.  The model computes in 32-bit   *)
(* integers: a numeric CSV cell holds hundredths of its unit (cents for    *)
(* money, 0.01% for percentages, 0.01 for factors), and the intermediate   *)
(* values of one stage are kept at the resolution given with each          *)
(* definition.  Products that do not fit 32 bits go through MulDiv.        *)
(***************************************************************************)
EXTENDS Integers, Sequences, FiniteSets, TLC

\* ------------------------------------------------------------------------
\* Fixed-point arithmetic (the code's float *, / and round)
\* ------------------------------------------------------------------------

Abs(x) == IF x < 0 THEN -x ELSE x

Min(a, b) == IF a < b THEN a ELSE b

Max(a, b) == IF a > b THEN a ELSE b

\* The digit base of the long multiplication by c: the largest the 32-bit
\* intermediate values allow.
DigitBase(c) ==
    IF c <= 65536 THEN 16384
    ELSE IF c <= 1048576 THEN 1024
    ELSE IF c <= 16777216 THEN 64
    ELSE IF c <= 134217728 THEN 8
    ELSE 2

\* <<q, r>> with a*b = q*c + r and 0 <= r < c, for a, b >= 0 and
\* 0 < c < 700,000,000, by long multiplication over the digits of b: no
\* intermediate value leaves 32 bits as long as q does not.
\* t = <<a, the leading digits of b, c, the digit base>>.
LongMulDiv[t \in Int \X Int \X Int \X Int] ==
    IF t[2] = 0 THEN <<0, 0>>
    ELSE LET h == LongMulDiv[<<t[1], t[2] \div t[4], t[3], t[4]>>]
             d == t[2] % t[4]
             w == t[4] * h[2] + d * (t[1] % t[3])
         IN <<t[4] * h[1] + d * (t[1] \div t[3]) + (w \div t[3]), w % t[3]>>

MulDivQR(a, b, c) == LongMulDiv[<<a, b, c, DigitBase(c)>>]

\* a*b/c rounded to the nearest integer (half away from zero), any signs of
\* a and b, c > 0.  The short form is exact whenever (c-1)*|b| fits 32 bits.
\* t = <<a, b, c>>.
RoundedMulDiv[t \in Int \X Int \X Int] ==
    LET s  == IF (t[1] < 0) = (t[2] < 0) THEN 1 ELSE -1
        x  == Abs(t[1])
        y  == Abs(t[2])
        qr == IF y < 2147483647 \div t[3]
              THEN <<(x \div t[3]) * y + ((x % t[3]) * y) \div t[3],
                     ((x % t[3]) * y) % t[3]>>
              ELSE MulDivQR(x, y, t[3])
    IN s * (IF 2 * qr[2] >= t[3] THEN qr[1] + 1 ELSE qr[1])

MulDiv(a, b, c) == RoundedMulDiv[<<a, b, c>>]

\* a*scale/b rounded to the nearest integer, b # 0 of any sign.
Ratio(a, scale, b) == IF b < 0 THEN MulDiv(-a, scale, -b) ELSE MulDiv(a, scale, b)

\* round(value, 2) of a value held in 1/10000: the result in hundredths.
Round2(v4) == MulDiv(v4, 1, 100)

\* ------------------------------------------------------------------------
\* CSV cells and dictionaries
\* ------------------------------------------------------------------------

\* A cell of a CSV row as csv.DictReader returns it: a numeric text (v in
\* hundredths), the empty string, or a text float() rejects.
Num(v) == [t |-> "num", v |-> v]

Blank == [t |-> "blank", v |-> 0]

Bad == [t |-> "bad", v |-> 0]

IsNum(c) == c.t = "num"

\* A Python dict: a function on its keys.  d[k] = v
Put(d, k, v) == [x \in (DOMAIN d) \cup {k} |-> IF x = k THEN v ELSE d[x]]

EmptyDict == [x \in {} |-> Blank]

\* row.get(k, '') or the value the DictWriter writes for a key a row lacks.
Get(d, k) == IF k \in DOMAIN d THEN d[k] ELSE Blank

\* float(row.get(k, 0) or 0): the number, 0 for an empty cell, Raise
\* (ValueError) for a text that is no number.
Raise == -2000000000

\* float(row.get(k, default)) of a column the file has: Raise for an empty
\* cell too.
Float(d, k) == LET c == Get(d, k) IN IF c.t = "num" THEN c.v ELSE Raise

FloatOr0(d, k) ==
    LET c == Get(d, k)
    IN IF c.t = "num" THEN c.v ELSE IF c.t = "blank" THEN 0 ELSE Raise

\* ------------------------------------------------------------------------
\* Static tables
\* ------------------------------------------------------------------------

\* NEIGHBORHOOD_QUALITY in hundredths, keyed by the zip code as a number;
\* 'default' is DefaultQuality.
DefaultQuality == 75

NEIGHBORHOOD_QUALITY ==
    [z \in {10001, 10011, 10014, 10016, 10017, 10018, 10019, 10021, 10022,
            10023, 10024, 10025, 10028, 10075, 11201, 11215, 11217, 11231,
            11238} |->
        CASE z \in {10001, 10016, 10017, 10018, 10025, 11201} -> 90
          [] z = 10019 -> 92
          [] z \in {11215, 11217} -> 88
          [] z \in {11231, 11238} -> 85
          [] OTHER -> 95]

\* The factors the static table holds (with the default).
QualityFactors == {NEIGHBORHOOD_QUALITY[z] : z \in DOMAIN NEIGHBORHOOD_QUALITY}
                      \cup {DefaultQuality}

\* PROPERTY_TYPE_MODIFIERS['rent'] and ['growth'], in hundredths.
RentModifier(style) ==
    CASE style = "Condo" -> 115
      [] style = "Co-op" -> 95
      [] style = "Single Family" -> 105
      [] style = "Multi Family" -> 90
      [] style = "Townhouse" -> 110
      [] style = "Luxury" -> 125
      [] OTHER -> 100

GrowthModifier(style) ==
    CASE style = "Condo" -> 105
      [] style = "Co-op" -> 95
      [] style = "Single Family" -> 102
      [] style = "Multi Family" -> 108
      [] style = "Townhouse" -> 104
      [] OTHER -> 100

Styles == {"Condo", "Co-op", "Single Family", "Multi Family", "Townhouse",
           "Luxury", "default"}

\* BASE_RATES in 0.01%, LOAN_TERMS in years, by list price in cents.
BaseRate(list_price) ==
    IF list_price < 25000000 THEN 800
    ELSE IF list_price < 50000000 THEN 775
    ELSE IF list_price < 75000000 THEN 750
    ELSE IF list_price < 100000000 THEN 725
    ELSE 700

LoanTerm(list_price) ==
    IF list_price < 50000000 THEN 15
    ELSE IF list_price < 75000000 THEN 20
    ELSE 25

\* ------------------------------------------------------------------------
\* Property adjustment and financing functions
\* ------------------------------------------------------------------------

\* The zip code of a row once find_closest_zip_with_data returned None.
NoZip == -1

get_neighborhood_factor(zip_code) ==
    IF zip_code \in DOMAIN NEIGHBORHOOD_QUALITY
    THEN NEIGHBORHOOD_QUALITY[zip_code] ELSE DefaultQuality

\* The base down payment by price band, in 1/10000, before the neighborhood
\* adjustment.
DownPaymentBase(list_price) ==
    IF list_price < 20000000 THEN 3500
    ELSE IF list_price < 50000000 THEN 4000
    ELSE IF list_price < 75000000 THEN 4500
    ELSE IF list_price < 100000000 THEN 5000
    ELSE 5500

\* A down payment whose neighborhood adjustment is in percentage points taken
\* as a fraction (5 instead of 0.05) and whose result is not clamped.
calculate_down_payment_pct_unclamped(list_price, neighborhood_factor) ==
    DownPaymentBase(list_price) - (neighborhood_factor - 75) * 500

\* A down payment that takes the band below for a price on a band's edge.
calculate_down_payment_pct_edge(list_price, neighborhood_factor) ==
    Min(6000, Max(3000, DownPaymentBase(list_price - 1)
                          - (neighborhood_factor - 75) * 5))

\* list_price in cents, neighborhood_factor in hundredths; the result in
\* 1/10000 (0.4425 is 4425).
calculate_down_payment_pct(list_price, neighborhood_factor) ==
    Min(6000, Max(3000, DownPaymentBase(list_price)
                          - (neighborhood_factor - 75) * 5))

\* <<interest rate in 0.01%, loan term in years>>
determine_mortgage_terms(list_price, neighborhood_factor) ==
    <<Min(900, Max(600, BaseRate(list_price) - (neighborhood_factor - 75))),
      LoanTerm(list_price)>>

\* The default growth data of a zip that growth_rates_by_zip does not hold.
DefaultCagr == 300

\* A growth rate that clamps only the market CAGR's lower end.
calculate_growth_rate_nocap(zip_code, neighborhood_factor, property_style, growth_rates_by_zip) ==
    LET five_year_cagr == IF zip_code \in DOMAIN growth_rates_by_zip
                          THEN growth_rates_by_zip[zip_code].five_year_cagr
                          ELSE DefaultCagr
    IN Max(200, five_year_cagr) + neighborhood_factor * 2
           + (GrowthModifier(property_style) - 100)

\* A growth rate whose base is not cut to 6% before the final clamp.
calculate_growth_rate_nobase(zip_code, neighborhood_factor, property_style, growth_rates_by_zip) ==
    LET five_year_cagr == IF zip_code \in DOMAIN growth_rates_by_zip
                          THEN growth_rates_by_zip[zip_code].five_year_cagr
                          ELSE DefaultCagr
    IN Min(1000, Max(200, Max(200, five_year_cagr) + neighborhood_factor * 2
                            + (GrowthModifier(property_style) - 100)))

\* growth_rates_by_zip maps a zip to [one_year, five_year_cagr] in 0.01%; the
\* result is the annual growth rate in 0.01% (as a decimal: in 1/10000).
calculate_growth_rate(zip_code, neighborhood_factor, property_style, growth_rates_by_zip) ==
    LET five_year_cagr == IF zip_code \in DOMAIN growth_rates_by_zip
                          THEN growth_rates_by_zip[zip_code].five_year_cagr
                          ELSE DefaultCagr
        base_growth_rate == Min(600, Max(200, five_year_cagr))
        neighborhood_adjustment == neighborhood_factor * 2
        property_adjustment == GrowthModifier(property_style) - 100
    IN Min(1000, Max(200, base_growth_rate + neighborhood_adjustment
                            + property_adjustment))


\* Hundredths in, 1/10000 out: the average of the bedroom and the bathroom
\* value, with 5% on top for a bath-to-bed ratio of 1.5 or more.
calculate_bed_bath_factor(beds, baths) ==
    LET bed_value == CASE beds = 0 -> 85
                       [] beds = 100 -> 100
                       [] beds = 200 -> 120
                       [] beds = 300 -> 135
                       [] beds >= 400 -> 145
                       [] OTHER -> 100
        bath_value == IF baths < 100 THEN 90
                      ELSE IF baths = 100 THEN 100
                      ELSE IF baths = 150 THEN 105
                      ELSE IF baths = 200 THEN 110
                      ELSE IF baths <= 300 THEN 120
                      ELSE 125
    IN IF beds # 0 /\ baths # 0 /\ beds > 0 /\ 2 * baths >= 3 * beds
       THEN MulDiv(bed_value + bath_value, 105, 2)
       ELSE (bed_value + bath_value) * 50

\* Hundredths in, hundredths out.
calculate_size_factor(sqft) ==
    IF sqft <= 0 THEN 100
    ELSE IF sqft < 50000 THEN 85
    ELSE IF sqft < 75000 THEN 95
    ELSE IF sqft < 100000 THEN 100
    ELSE IF sqft < 150000 THEN 110
    ELSE IF sqft < 200000 THEN 120
    ELSE IF sqft < 300000 THEN 130
    ELSE 140

\* year_built in hundredths, current_year (datetime.now().year) a plain
\* number; hundredths out.
calculate_condition_factor(year_built, current_year) ==
    IF year_built <= 0 THEN 100
    ELSE LET age == current_year * 100 - year_built
         IN IF age < 300 THEN 115
            ELSE IF age < 1000 THEN 110
            ELSE IF age < 2000 THEN 105
            ELSE IF age < 4000 THEN 100
            ELSE IF age < 7500 THEN 95
            ELSE 90

\* The number of luxury keywords calculate_amenity_score looks for.
LuxuryKeywords == 17

\* row.keywords: how many of the luxury keywords the description holds.
\* Raise when float() of the parking cell raises (it is outside the
\* function's try), else the score in hundredths.  The second HOA band
\* (> 1000) is behind the first and never taken.
calculate_amenity_score(row) ==
    LET parking_garage == row.cols["parking_garage"]
        hoa_fee == row.cols["hoa_fee"]
    IN IF parking_garage.t = "bad" THEN Raise
       ELSE LET kw == Min(20, row.keywords)
                pk == IF IsNum(parking_garage) /\ parking_garage.v > 0
                      THEN 5 ELSE 0
                ho == IF IsNum(hoa_fee) /\ hoa_fee.v > 50000 THEN 5 ELSE 0
            IN 100 + kw + pk + ho

\* entry_cap_rate and growth_rate decimals in 1/10000, neighborhood_factor in
\* hundredths; the exit cap rate as a decimal in 1/1000000.
calculate_exit_cap_rate(entry_cap_rate, growth_rate, neighborhood_factor) ==
    LET entry == IF entry_cap_rate > 10000
                 THEN entry_cap_rate ELSE entry_cap_rate * 100
        cap_rate_expansion ==
            Max(0, 10000 - (neighborhood_factor - 75) * 150
                     - (growth_rate - 300) * 50)
    IN Min(100000, Max(40000, entry + cap_rate_expansion))


\* ------------------------------------------------------------------------
\* x ** (1/5)
\* ------------------------------------------------------------------------

\* (y/100000)^5 in 1/100000, each product cut to 1/100000.
Pow5(y) ==
    LET y2 == MulDivQR(y, y, 100000)[1]
        y3 == MulDivQR(y2, y, 100000)[1]
        y4 == MulDivQR(y3, y, 100000)[1]
    IN MulDivQR(y4, y, 100000)[1]

\* The largest root the search looks for: 4.0 (its fifth power is 1024).
Root5Max == 400000

\* The search narrows sixteen-fold at each step, from steps of 16^4.
Root5Radix == 16

Root5FirstStep == 65536

\* The largest y <= Root5Max with Pow5(y) <= x, one base-16 digit at a time.
\* t = <<x, the digits found, the weight of the next digit>>.
Root5Search[t \in Int \X Int \X Int] ==
    IF t[3] = 0 THEN t[2]
    ELSE LET digit == Cardinality({j \in 1..(Root5Radix - 1) :
                          /\ t[2] + j * t[3] <= Root5Max
                          /\ Pow5(t[2] + j * t[3]) <= t[1]})
         IN Root5Search[<<t[1], t[2] + digit * t[3], t[3] \div Root5Radix>>]

\* x ** (1/5) for x > 0, x and the result in 1/100000.
Root5(x) == Root5Search[<<x, 0, Root5FirstStep>>]

\* ------------------------------------------------------------------------
\* The market rent index (load_zori_data, find_closest_zip_with_data)
\* ------------------------------------------------------------------------

\* sorted_date_columns[-13] and [-61]: the table needs that many columns.
OneYearOffset == 13

FiveYearOffset == 61

SeasonWindow == 24

\* float(row[col]) if row[col] else None: the number, None for an empty
\* cell, Raise for a text that is no number.
None == -2000000001

FloatOrNone(c) ==
    IF c.t = "num" THEN c.v ELSE IF c.t = "blank" THEN None ELSE Raise

\* Python truth of a float-or-None: neither None nor 0.
Truthy(x) == x # None /\ x # 0

\* The calendar month of column j (1..ncols) of a table whose last column is
\* of month last_month, the columns being consecutive months.
MonthOfColumn(table, j) ==
    ((table.last_month - 1 + 12 * table.ncols - (table.ncols - j)) % 12) + 1

\* monthly_patterns of one row: month -> <<sum of the month-over-month
\* changes in 0.01%, their number>>, over the last SeasonWindow columns, as
\* [ok, pat]; ok is FALSE when a cell of the window is no number (ValueError).
MonthlyPatterns(table, series) ==
    LET window == Min(SeasonWindow, table.ncols)
        first == table.ncols - window + 1
        After[i \in 0..(window - 1)] ==
            IF i = 0 THEN [ok |-> TRUE, pat |-> EmptyDict]
            ELSE LET before == After[i - 1]
                     acc == before.pat
                     current_rent == FloatOrNone(series[first + i])
                     prev_rent == FloatOrNone(series[first + i - 1])
                     month_num == MonthOfColumn(table, first + i)
                 IN IF ~before.ok \/ current_rent = Raise \/ prev_rent = Raise
                    THEN [ok |-> FALSE, pat |-> acc]
                    ELSE IF Truthy(current_rent) /\ Truthy(prev_rent)
                    THEN LET change_pct == Ratio(current_rent - prev_rent, 10000, prev_rent)
                             old == IF month_num \in DOMAIN acc THEN acc[month_num]
                                    ELSE <<0, 0>>
                         IN [ok |-> TRUE,
                             pat |-> Put(acc, month_num,
                                         <<old[1] + change_pct, old[2] + 1>>)]
                    ELSE before
    IN After[window - 1]

\* What one row of the table gives: ok is FALSE when the row is skipped (an
\* error the loop's except catches), else its zip, state, latest rent (may be
\* None) and derived values.
ZoriRow(table, row) ==
    LET region == row.RegionName
        latest_rent == FloatOrNone(row.series[table.ncols])
        one_year_ago_rent == FloatOrNone(row.series[table.ncols - OneYearOffset + 1])
        five_years_ago_rent == FloatOrNone(row.series[table.ncols - FiveYearOffset + 1])
        one_year_growth ==
            IF Truthy(latest_rent) /\ Truthy(one_year_ago_rent)
            THEN Ratio(latest_rent - one_year_ago_rent, 10000, one_year_ago_rent)
            ELSE None
        cagr_defined == Truthy(latest_rent) /\ Truthy(five_years_ago_rent)
        ratio_negative == cagr_defined /\ ((latest_rent < 0) # (five_years_ago_rent < 0))
        five_year_cagr ==
            IF cagr_defined /\ ~ratio_negative
            THEN MulDiv(Root5(MulDiv(Abs(latest_rent), 100000, Abs(five_years_ago_rent)))
                            - 100000, 1, 10)
            ELSE None
        monthly_patterns == MonthlyPatterns(table, row.series)
    IN IF region.t # "num" \/ latest_rent = Raise \/ one_year_ago_rent = Raise
          \/ five_years_ago_rent = Raise \/ ratio_negative
          \/ ~monthly_patterns.ok
       THEN [ok |-> FALSE]
       ELSE [ok |-> TRUE, zip_code |-> region.v \div 100, state |-> row.State,
             latest_rent |-> latest_rent,
             one_year |-> IF Truthy(one_year_growth) THEN one_year_growth ELSE 0,
             five_year_cagr |-> IF Truthy(five_year_cagr) THEN five_year_cagr ELSE 0,
             monthly_patterns |-> monthly_patterns.pat]

\* The dictionaries before the first row.
EmptyIndex ==
    [zips |-> <<>>, zori_by_zip |-> EmptyDict, growth_rates_by_zip |-> EmptyDict,
     seasonality_patterns |-> EmptyDict, state_avg_rents |-> EmptyDict]

\* The body of the loop for one row r (what ZoriRow gives) on the
\* dictionaries acc: zips is zori_by_zip's keys in insertion order.
AddZoriRow(acc, r) ==
    IF ~r.ok \/ ~Truthy(r.latest_rent) THEN acc
    ELSE LET old == IF r.state \in DOMAIN acc.state_avg_rents
                    THEN acc.state_avg_rents[r.state]
                    ELSE [sum |-> 0, count |-> 0]
         IN [zips |-> IF r.zip_code \in DOMAIN acc.zori_by_zip THEN acc.zips
                      ELSE Append(acc.zips, r.zip_code),
             zori_by_zip |-> Put(acc.zori_by_zip, r.zip_code, r.latest_rent),
             growth_rates_by_zip |->
                 Put(acc.growth_rates_by_zip, r.zip_code,
                     [one_year |-> r.one_year, five_year_cagr |-> r.five_year_cagr]),
             seasonality_patterns |->
                 Put(acc.seasonality_patterns, r.zip_code, r.monthly_patterns),
             state_avg_rents |->
                 Put(acc.state_avg_rents, r.state,
                     [sum |-> old.sum + r.latest_rent, count |-> old.count + 1])]

\* The loop over the rows of the table.
ZoriRows(table) ==
    LET After[i \in 0..Len(table.rows)] ==
            IF i = 0 THEN EmptyIndex
            ELSE AddZoriRow(After[i - 1], ZoriRow(table, table.rows[i]))
    IN After[Len(table.rows)]

\* Sum and number of the changes of one month over all indexed zips.
AllChanges(patterns, zips, month) ==
    LET Upto[i \in 0..Len(zips)] ==
            IF i = 0 THEN <<0, 0>>
            ELSE LET rest == Upto[i - 1]
                     mine == IF month \in DOMAIN patterns[zips[i]]
                             THEN patterns[zips[i]][month] ELSE <<0, 0>>
                 IN <<rest[1] + mine[1], rest[2] + mine[2]>>
    IN Upto[Len(zips)]

\* The average change of one month over all indexed zips, 0 when none has
\* one.
AverageChange(all_changes) ==
    IF all_changes[2] > 0 THEN MulDiv(all_changes[1], 1, all_changes[2]) ELSE 0

\* What load_zori_data returns from the dictionaries idx the loop built.
ZoriIndex(idx) ==
    [ok |-> TRUE, zips |-> idx.zips,
     zori_by_zip |-> idx.zori_by_zip,
     growth_rates_by_zip |-> idx.growth_rates_by_zip,
     avg_seasonality |->
         [month \in 1..12 |->
             AverageChange(AllChanges(idx.seasonality_patterns, idx.zips, month))],
     state_averages |->
         [st \in DOMAIN idx.state_avg_rents |->
             MulDiv(idx.state_avg_rents[st].sum, 1, idx.state_avg_rents[st].count)]]

\* table: [ncols, last_month, rows], each row [RegionName, State, series].
\* ok is FALSE when the table has fewer date columns than the offsets need
\* (an IndexError outside the loop's try), else the four dictionaries: rents
\* in cents, growth and seasonality in 0.01%.
load_zori_data(table) ==
    IF table.ncols < FiveYearOffset THEN [ok |-> FALSE]
    ELSE ZoriIndex(ZoriRows(table))

\* The closest key by |difference|, the last inserted among equals.
ClosestZipLast(target, zips, closest_zip, min_distance) ==
    LET Scan[t \in Int \X Int \X Int] ==
            IF t[1] = Len(zips) THEN t[2]
            ELSE LET distance == Abs(zips[t[1] + 1] - target)
                 IN IF t[3] < 0 \/ distance <= t[3]
                    THEN Scan[<<t[1] + 1, zips[t[1] + 1], distance>>]
                    ELSE Scan[<<t[1] + 1, t[2], t[3]>>]
    IN Scan[<<0, closest_zip, min_distance>>]

\* The closest key by |difference|, the first inserted among equals.
\* t = <<the keys looked at, closest_zip, min_distance>>; min_distance is -1
\* for float('inf').
ClosestZip(target, zips, closest_zip, min_distance) ==
    LET Scan[t \in Int \X Int \X Int] ==
            IF t[1] = Len(zips) THEN t[2]
            ELSE LET distance == Abs(zips[t[1] + 1] - target)
                 IN IF t[3] < 0 \/ distance < t[3]
                    THEN Scan[<<t[1] + 1, zips[t[1] + 1], distance>>]
                    ELSE Scan[<<t[1] + 1, t[2], t[3]>>]
    IN Scan[<<0, closest_zip, min_distance>>]

\* index: what load_zori_data returned; NoZip for None.  The keys are
\* built by str(int(...)), so int() of a key never raises.
find_closest_zip_with_data(target_zip, index) ==
    IF target_zip \in DOMAIN index.zori_by_zip THEN target_zip
    ELSE ClosestZip(target_zip, index.zips, NoZip, -1)


\* ------------------------------------------------------------------------
\* Rent estimation (estimate_rental_income, process_rental_estimates)
\* ------------------------------------------------------------------------

\* A property row: [id, state, style, keywords, cols].  cols maps the names
\* of the numeric columns to cells; style and state are texts, keywords the
\* number of luxury keywords in the row's description.

\* Two units whatever the bedrooms.
TwoUnits(beds) == 2

\* max(2, beds // 2) of a number of bedrooms in hundredths: the rentable
\* units of a multi-family building.
Units(beds) == Max(2, beds \div 200)

\* The zip whose rent is taken when only a zip with a rent of its own gets
\* one: no closest zip is looked for.
ResolveZipOwnOnly(own_zip, index) ==
    IF own_zip \in DOMAIN index.zori_by_zip THEN own_zip ELSE NoZip

\* The zip whose rent is taken for a property in own_zip: own_zip when the
\* index has it, else the closest zip of the index, NoZip when there is none.
ResolveZip(own_zip, index) ==
    IF own_zip \in DOMAIN index.zori_by_zip THEN own_zip
    ELSE find_closest_zip_with_data(own_zip, index)

\* [ok |-> FALSE] for the five Nones, else the estimate: rents in 1/10000
\* dollar, growth_rate in 0.01%, grm in hundredths.  now is the clock's
\* [month, year] (datetime.now()).
estimate_rental_income(row, index, now) ==
    LET zip_cell == FloatOr0(row.cols, "zip_code")
        own_zip == zip_cell \div 100
        zip_code == ResolveZip(own_zip, index)
        no_data == zip_code = NoZip /\ row.state \notin DOMAIN index.state_averages
        base_zori_rent == IF zip_code = NoZip THEN index.state_averages[row.state]
                          ELSE index.zori_by_zip[zip_code]
        beds == FloatOr0(row.cols, "beds")
        full_baths == FloatOr0(row.cols, "full_baths")
        half_baths == FloatOr0(row.cols, "half_baths")
        baths == full_baths + half_baths \div 2
        sqft == FloatOr0(row.cols, "sqft")
        year_built == FloatOr0(row.cols, "year_built")
        property_style == IF row.style = "" THEN "default" ELSE row.style
        bed_bath_factor == calculate_bed_bath_factor(beds, baths)
        size_factor == calculate_size_factor(sqft)
        condition_factor == calculate_condition_factor(year_built, now.year)
        amenity_factor == calculate_amenity_score(row)
        property_type_factor == RentModifier(property_style)
        seasonality_factor == 10000 + index.avg_seasonality[now.month]
        units == Units(beds)
        blend == bed_bath_factor * 35 + size_factor * 2500 + condition_factor * 1500
                     + amenity_factor * 1500 + property_type_factor * 1000
        adjustment_factor == MulDiv(blend, seasonality_factor, 10000)
        adjusted_rent == IF property_style = "Multi Family" /\ beds >= 400
                         THEN MulDiv(base_zori_rent * 100 * units, 85, 100)
                         ELSE MulDiv(base_zori_rent * 100, adjustment_factor, 1000000)
        neighborhood_factor == get_neighborhood_factor(zip_code)
        growth_rate == calculate_growth_rate(zip_code, neighborhood_factor,
                                             property_style, index.growth_rates_by_zip)
        year2 == MulDiv(adjusted_rent, 10000 + growth_rate, 10000)
        year3 == MulDiv(year2, 10000 + growth_rate, 10000)
        year4 == MulDiv(year3, 10000 + growth_rate, 10000)
        year5 == MulDiv(year4, 10000 + growth_rate, 10000)
        annual_rent == adjusted_rent * 12
        list_price == FloatOr0(row.cols, "list_price")
        grm == IF list_price = Raise THEN 0
               ELSE IF annual_rent > 0 THEN MulDiv(list_price, 10000, annual_rent)
               ELSE 0
    IN IF zip_cell = Raise THEN [ok |-> FALSE]
       ELSE IF no_data THEN [ok |-> FALSE]
       ELSE IF Raise \in {beds, full_baths, half_baths, sqft, year_built, amenity_factor}
       THEN [ok |-> FALSE]
       ELSE [ok |-> TRUE, zip_code |-> zip_code, base_zori_rent |-> base_zori_rent,
             monthly_rent |-> adjusted_rent, annual_rent |-> annual_rent,
             growth_rate |-> growth_rate,
             rent_projections |-> <<adjusted_rent, year2, year3, year4, year5>>,
             grm |-> grm]

\* The columns process_rental_estimates adds.
ZoriFields ==
    {"zori_monthly_rent", "zori_annual_rent", "zori_growth_rate", "zori_rent_year1",
     "zori_rent_year2", "zori_rent_year3", "zori_rent_year4", "zori_rent_year5",
     "gross_rent_multiplier"}

\* csv.DictWriter.writerow: every column of the file, '' for a key the row
\* lacks (and for None).
WriteRow(row, cols, fieldnames) ==
    [row EXCEPT !.cols = [k \in fieldnames |-> Get(cols, k)]]

\* The cells process_rental_estimates sets from the estimate e: rounded to
\* cents, the multiplier only when it is not 0; all empty without an
\* estimate or with a monthly rent of 0.
RentalEstimateCols(e) ==
    IF e.ok /\ e.monthly_rent # 0
    THEN [k \in ZoriFields |->
            CASE k = "zori_monthly_rent" -> Num(Round2(e.monthly_rent))
              [] k = "zori_annual_rent" -> Num(Round2(e.annual_rent))
              [] k = "zori_growth_rate" -> Num(e.growth_rate)
              [] k = "zori_rent_year1" -> Num(Round2(e.rent_projections[1]))
              [] k = "zori_rent_year2" -> Num(Round2(e.rent_projections[2]))
              [] k = "zori_rent_year3" -> Num(Round2(e.rent_projections[3]))
              [] k = "zori_rent_year4" -> Num(Round2(e.rent_projections[4]))
              [] k = "zori_rent_year5" -> Num(Round2(e.rent_projections[5]))
              [] OTHER -> IF e.grm # 0 THEN Num(e.grm) ELSE Blank]
    ELSE [k \in ZoriFields |-> Blank]

\* row.update(cols) on the cells of a row.
UpdateCols(old, cols) ==
    [k \in (DOMAIN old) \cup (DOMAIN cols) |->
        IF k \in DOMAIN cols THEN cols[k] ELSE old[k]]

\* The body of process_rental_estimates' loop: the row as written to
\* TEMP_ZORI_ESTIMATES.
RentalEstimateRow(row, index, now) ==
    WriteRow(row,
             UpdateCols(row.cols,
                        RentalEstimateCols(estimate_rental_income(row, index, now))),
             (DOMAIN row.cols) \cup ZoriFields)


\* ------------------------------------------------------------------------
\* Cash flow (calculate_cash_flow_metrics, process_investment_metrics)
\* ------------------------------------------------------------------------

\* The columns process_investment_metrics adds.
CashFlowFields ==
    {"monthly_rent", "annual_rent", "tax_used", "hoa_fee_used", "down_payment_pct",
     "interest_rate", "loan_term", "transaction_cost", "cash_equity",
     "noi_year1", "noi_year2", "noi_year3", "noi_year4", "noi_year5",
     "cap_rate", "ucf", "cash_yield",
     "ucf_year1", "ucf_year2", "ucf_year3", "ucf_year4", "ucf_year5"}

\* A cap rate left as a fraction: the ratio not multiplied by 100.
CapRateAsFraction(noi_year1, list_price) ==
    MulDiv(noi_year1, 100, list_price)

\* (noi_year1 / list_price) * 100 in hundredths of a percent, of amounts in
\* cents; the list price is positive where it is used.
CapRate(noi_year1, list_price) ==
    MulDiv(noi_year1, 10000, list_price)

\* The metrics dictionary calculate_cash_flow_metrics returns, each value as
\* process_investment_metrics writes it (round(value, 2), in hundredths).
\* An exception leaves the dictionary as it was when it was raised.  The PTR
\* cell is in 1/1000000.
calculate_cash_flow_metrics(row) ==
    LET list_price == FloatOr0(row.cols, "list_price")
        zori_based == Get(row.cols, "zori_monthly_rent").t # "blank"
        ptr_value == FloatOr0(row.cols, "PTR")
        sqft == FloatOr0(row.cols, "sqft")
        price_per_sqft == FloatOr0(row.cols, "price_per_sqft")
        bre == IF sqft > 0 /\ price_per_sqft > 0 THEN MulDiv(sqft, price_per_sqft, 100)
               ELSE list_price
        beds == FloatOr0(row.cols, "beds")
        full_baths == FloatOr0(row.cols, "full_baths")
        af == 10000 + 500 + 2 * beds + full_baths + (IF sqft > 200000 THEN 500 ELSE 0)
        monthly_rent == IF zori_based THEN Float(row.cols, "zori_monthly_rent")
                        ELSE MulDiv(MulDiv(bre, ptr_value, 1000000), af, 10000)
        annual_rent == IF zori_based THEN Float(row.cols, "zori_annual_rent")
                       ELSE monthly_rent * 12
        growth_rate == IF zori_based THEN Float(row.cols, "zori_growth_rate") ELSE 300
        no_rent == IF zori_based THEN Raise \in {monthly_rent, annual_rent, growth_rate}
                   ELSE ptr_value = Raise \/ ptr_value <= 0
                        \/ Raise \in {sqft, price_per_sqft, beds, full_baths}
        zip_cell == FloatOr0(row.cols, "zip_code")
        neighborhood_factor == get_neighborhood_factor(zip_cell \div 100)
        tax_in == FloatOr0(row.cols, "tax")
        tax == IF tax_in = 0 THEN MulDiv(list_price, 1, 100) ELSE tax_in
        hoa_in == FloatOr0(row.cols, "hoa_fee")
        hoa_fee == IF hoa_in = 0 THEN MulDiv(list_price, 15, 120000) ELSE hoa_in
        down_payment_pct == calculate_down_payment_pct(list_price, neighborhood_factor)
        terms == determine_mortgage_terms(list_price, neighborhood_factor)
        transaction_cost == MulDiv(list_price, 1, 100)
        cash_equity == MulDiv(list_price + transaction_cost, down_payment_pct, 10000)
        rent2 == MulDiv(annual_rent, 10000 + growth_rate, 10000)
        rent3 == MulDiv(rent2, 10000 + growth_rate, 10000)
        rent4 == MulDiv(rent3, 10000 + growth_rate, 10000)
        rent5 == MulDiv(rent4, 10000 + growth_rate, 10000)
        noi1 == annual_rent - hoa_fee * 12
        rents == [monthly_rent |-> monthly_rent, annual_rent |-> annual_rent]
        with_tax == [monthly_rent |-> monthly_rent, annual_rent |-> annual_rent,
                     tax_used |-> tax]
    IN IF list_price = Raise \/ list_price <= 0 THEN EmptyDict
       ELSE IF no_rent THEN EmptyDict
       ELSE IF zip_cell = Raise \/ tax_in = Raise THEN rents
       ELSE IF hoa_in = Raise THEN with_tax
       ELSE [monthly_rent |-> monthly_rent, annual_rent |-> annual_rent,
             tax_used |-> tax, hoa_fee_used |-> hoa_fee,
             down_payment_pct |-> Round2(down_payment_pct),
             interest_rate |-> terms[1], loan_term |-> terms[2] * 100,
             transaction_cost |-> transaction_cost, cash_equity |-> cash_equity,
             noi_year1 |-> noi1,
             noi_year2 |-> rent2 - hoa_fee * 12,
             noi_year3 |-> rent3 - hoa_fee * 12,
             noi_year4 |-> rent4 - hoa_fee * 12,
             noi_year5 |-> rent5 - hoa_fee * 12,
             cap_rate |-> CapRate(noi1, list_price),
             ucf |-> noi1 - tax,
             cash_yield |-> IF cash_equity > 0 THEN MulDiv(noi1 - tax, 10000, cash_equity)
                            ELSE 0,
             ucf_year1 |-> noi1 - tax,
             ucf_year2 |-> rent2 - hoa_fee * 12 - tax,
             ucf_year3 |-> rent3 - hoa_fee * 12 - tax,
             ucf_year4 |-> rent4 - hoa_fee * 12 - tax,
             ucf_year5 |-> rent5 - hoa_fee * 12 - tax]

\* row[key] = round(value, 2) for every key of metrics.
MergeMetrics(cols, metrics) ==
    [k \in (DOMAIN cols) \cup (DOMAIN metrics) |->
        IF k \in DOMAIN metrics THEN Num(metrics[k]) ELSE cols[k]]

\* The body of process_investment_metrics' loop: the row as written to
\* TEMP_CASH_FLOW.
InvestmentMetricsRow(row) ==
    WriteRow(row, MergeMetrics(row.cols, calculate_cash_flow_metrics(row)),
             (DOMAIN row.cols) \cup CashFlowFields)


\* ------------------------------------------------------------------------
\* Mortgage and returns (calculate_mortgage_metrics,
\* calculate_investment_returns, process_final_metrics)
\* ------------------------------------------------------------------------

\* The columns process_final_metrics adds.
FinalFields ==
    {"loan_amount", "monthly_payment", "annual_debt_service",
     "principal_paid_year1", "principal_paid_year2", "principal_paid_year3",
     "principal_paid_year4", "principal_paid_year5",
     "loan_balance_year1", "loan_balance_year2", "loan_balance_year3",
     "loan_balance_year4", "loan_balance_year5",
     "lcf_year1", "lcf_year2", "lcf_year3", "lcf_year4", "lcf_year5",
     "total_principal_paid", "final_loan_balance", "accumulated_cash_flow",
     "exit_cap_rate", "exit_value", "equity_at_exit", "cash_on_cash", "irr"}

\* The scale of (1 + monthly_rate) ** total_periods.
PowScale == 100000000

\* monthly_rate = rate / 100 / 12 of a rate in 0.01%: x * monthly_rate.
TimesMonthlyRate(x, rate) == MulDiv(x, rate, 120000)

\* g ** n in 1/PowScale for g in 1/PowScale, by repeated squaring.
\* t = <<g, n>>.
Power[t \in Int \X Int] ==
    IF t[2] = 0 THEN PowScale
    ELSE LET h == Power[<<t[1], t[2] \div 2>>]
             h2 == MulDiv(h, h, PowScale)
         IN IF t[2] % 2 = 0 THEN h2 ELSE MulDiv(h2, t[1], PowScale)

Compound(g, n) == Power[<<g, n>>]

\* npf.pmt(monthly_rate, total_periods, -loan_amount): the level payment, in
\* cents, of a loan in cents at a rate in 0.01% over total_periods months.
pmt(rate, total_periods, loan_amount) ==
    LET temp == Compound(PowScale + TimesMonthlyRate(PowScale, rate), total_periods)
    IN MulDiv(loan_amount, TimesMonthlyRate(temp, rate), temp - PowScale)

\* The twelve periods of one year: <<principal paid, remaining balance>>.
\* t = <<remaining_balance, monthly_payment, rate, periods left, principal_paid>>.
AmortizePeriods[t \in Int \X Int \X Int \X Int \X Int] ==
    IF t[4] = 0 THEN <<t[5], t[1]>>
    ELSE LET interest_payment == TimesMonthlyRate(t[1], t[3])
             principal_payment == t[2] - interest_payment
         IN AmortizePeriods[<<t[1] - principal_payment, t[2], t[3], t[4] - 1,
                              t[5] + principal_payment>>]

\* A year that pays nothing down: the balance stays.
AmortizeYearInterestOnly(remaining_balance, monthly_payment, rate, periods, principal_paid) ==
    <<principal_paid, remaining_balance>>

\* A year whose whole payments are taken off the balance.
AmortizeYearByPayment(remaining_balance, monthly_payment, rate, periods, principal_paid) ==
    <<AmortizePeriods[<<remaining_balance, monthly_payment, rate, periods,
                        principal_paid>>][1],
      remaining_balance - monthly_payment * periods>>

AmortizeYear(remaining_balance, monthly_payment, rate, periods, principal_paid) ==
    AmortizePeriods[<<remaining_balance, monthly_payment, rate, periods, principal_paid>>]

\* for year in range(1, 6): the sequence of the years' <<principal paid,
\* remaining balance>>.  t = <<remaining_balance, monthly_payment, rate,
\* years left>>.
AmortizeYears[t \in Int \X Int \X Int \X Int] ==
    IF t[4] = 0 THEN <<>>
    ELSE LET y == AmortizeYear(t[1], t[2], t[3], 12, 0)
         IN <<y>> \o AmortizeYears[<<y[2], t[2], t[3], t[4] - 1>>]

\* The metrics dictionary process_final_metrics builds from a row of
\* TEMP_CASH_FLOW: every listed field, 0 for an empty or non-numeric cell.
MetricsOfRow(row) ==
    [k \in CashFlowFields |->
        LET c == Get(row.cols, k) IN IF c.t = "num" THEN c.v ELSE 0]

\* metrics.update(added)
UpdateMetrics(metrics, added) ==
    [k \in (DOMAIN metrics) \cup (DOMAIN added) |->
        IF k \in DOMAIN added THEN added[k] ELSE metrics[k]]

\* The fields the five-year loop and the lines after it set: y is the
\* sequence of the years' <<principal paid, remaining balance>>.
ScheduleMetrics(metrics, loan_amount, monthly_payment, y) ==
    [loan_amount |-> loan_amount, monthly_payment |-> monthly_payment,
     annual_debt_service |-> monthly_payment * 12,
     principal_paid_year1 |-> y[1][1], principal_paid_year2 |-> y[2][1],
     principal_paid_year3 |-> y[3][1], principal_paid_year4 |-> y[4][1],
     principal_paid_year5 |-> y[5][1],
     loan_balance_year1 |-> y[1][2], loan_balance_year2 |-> y[2][2],
     loan_balance_year3 |-> y[3][2], loan_balance_year4 |-> y[4][2],
     loan_balance_year5 |-> y[5][2],
     lcf_year1 |-> metrics["ucf_year1"] - monthly_payment * 12,
     lcf_year2 |-> metrics["ucf_year2"] - monthly_payment * 12,
     lcf_year3 |-> metrics["ucf_year3"] - monthly_payment * 12,
     lcf_year4 |-> metrics["ucf_year4"] - monthly_payment * 12,
     lcf_year5 |-> metrics["ucf_year5"] - monthly_payment * 12,
     total_principal_paid |-> y[1][1] + y[2][1] + y[3][1] + y[4][1] + y[5][1],
     final_loan_balance |-> y[5][2],
     accumulated_cash_flow |->
         metrics["ucf_year1"] + metrics["ucf_year2"] + metrics["ucf_year3"]
             + metrics["ucf_year4"] + metrics["ucf_year5"] - 5 * (monthly_payment * 12)]

\* The fields set once the payment is known.
PaymentMetrics(metrics, loan_amount, monthly_payment) ==
    ScheduleMetrics(metrics, loan_amount, monthly_payment,
                    AmortizeYears[<<loan_amount, monthly_payment,
                                    metrics["interest_rate"], 5>>])

\* The fields set once the loan amount is known: the first three only when
\* the rate or the term is 0 (the local monthly_payment is then unbound).
LoanMetrics(metrics, loan_amount, total_periods) ==
    IF metrics["interest_rate"] > 0 /\ total_periods > 0
    THEN PaymentMetrics(metrics, loan_amount,
                        pmt(metrics["interest_rate"], total_periods, loan_amount))
    ELSE [loan_amount |-> loan_amount, monthly_payment |-> 0,
          annual_debt_service |-> 0]

\* metrics with the mortgage fields, values in hundredths.  The exceptions
\* the function catches leave metrics as it was when they were raised: a
\* list price that is no number before any field is set, the unbound local
\* monthly_payment after the first three.
calculate_mortgage_metrics(row, metrics) ==
    IF FloatOr0(row.cols, "list_price") = Raise THEN metrics
    ELSE UpdateMetrics(metrics,
             LoanMetrics(metrics,
                 MulDiv(FloatOr0(row.cols, "list_price") + metrics["transaction_cost"],
                        100 - metrics["down_payment_pct"], 100),
                 MulDiv(metrics["loan_term"], 12, 100)))

\* metrics.get(k, 0)
GetOr0(metrics, k) == IF k \in DOMAIN metrics THEN metrics[k] ELSE 0

\* An equity at exit that leaves the loan balance in.
EquityAtExitUnlevered(exit_value, final_loan_balance, accumulated_cash_flow) ==
    exit_value + accumulated_cash_flow

\* An equity at exit that leaves the accumulated cash flow out.
EquityAtExitOfSale(exit_value, final_loan_balance, accumulated_cash_flow) ==
    exit_value - final_loan_balance

\* metrics['exit_value'] - final_loan_balance + accumulated_cash_flow
EquityAtExit(exit_value, final_loan_balance, accumulated_cash_flow) ==
    exit_value - final_loan_balance + accumulated_cash_flow

\* metrics with the return fields, values in hundredths.  A growth-rate or
\* zip cell that is no number (an empty one included, for the growth rate)
\* raises before any field is set.
calculate_investment_returns(row, metrics) ==
    LET cap_rate == GetOr0(metrics, "cap_rate")
        growth_rate == Float(row.cols, "zori_growth_rate")
        zip_cell == FloatOr0(row.cols, "zip_code")
        neighborhood_factor == get_neighborhood_factor(zip_cell \div 100)
        exit_cap_rate == calculate_exit_cap_rate(cap_rate, growth_rate, neighborhood_factor)
        noi_year5 == GetOr0(metrics, "noi_year5")
        exit_value == IF exit_cap_rate > 0 THEN MulDiv(noi_year5, 1000000, exit_cap_rate)
                      ELSE 0
        final_loan_balance == GetOr0(metrics, "final_loan_balance")
        accumulated_cash_flow == GetOr0(metrics, "accumulated_cash_flow")
        equity_at_exit == EquityAtExit(exit_value, final_loan_balance,
                                       accumulated_cash_flow)
        cash_equity == GetOr0(metrics, "cash_equity")
        cash_on_cash == IF cash_equity > 0 THEN MulDiv(equity_at_exit, 100, cash_equity)
                        ELSE 0
        irr == IF cash_equity > 0 /\ equity_at_exit > 0
               THEN MulDiv(Root5(MulDiv(equity_at_exit, 100000, cash_equity)) - 100000, 1, 10)
               ELSE 0
        added == [exit_cap_rate |-> MulDiv(exit_cap_rate, 1, 100),
                  exit_value |-> exit_value, equity_at_exit |-> equity_at_exit,
                  cash_on_cash |-> cash_on_cash, irr |-> irr]
    IN IF growth_rate = Raise \/ zip_cell = Raise THEN metrics
       ELSE UpdateMetrics(metrics, added)

\* The body of process_final_metrics' loop: the row as written to
\* OUTPUT_FINAL_FILE.
FinalMetricsRow(row) ==
    LET metrics == calculate_investment_returns(row,
                       calculate_mortgage_metrics(row, MetricsOfRow(row)))
    IN WriteRow(row, MergeMetrics(row.cols, metrics), (DOMAIN row.cols) \cup FinalFields)


\* ------------------------------------------------------------------------
\* Inputs
\* ------------------------------------------------------------------------

\* The most rows a property file holds.
MaxRows == 2

\* The numeric columns of the property file.
InputFields ==
    {"zip_code", "beds", "full_baths", "half_baths", "sqft", "lot_sqft", "year_built",
     "list_price", "tax", "hoa_fee", "parking_garage", "PTR", "price_per_sqft"}

\* The end-to-end example of the specification: a two-bed condo in 10001
\* listed at 500,000 with no tax and no HOA fee given.
ExampleRow ==
    [id |-> 0, state |-> "NY", style |-> "Condo", keywords |-> 1,
     cols |-> [k \in InputFields |->
                 CASE k = "zip_code" -> Num(1000100)
                   [] k = "beds" -> Num(200)
                   [] k = "full_baths" -> Num(200)
                   [] k = "sqft" -> Num(120000)
                   [] k = "year_built" -> Num(201500)
                   [] k = "list_price" -> Num(50000000)
                   [] k = "tax" -> Num(0)
                   [] k = "hoa_fee" -> Num(0)
                   [] OTHER -> Blank]]

With(row, k, c) == [row EXCEPT !.cols[k] = c]

\* A five-bedroom multi-family building in 11215: old, large, with one
\* bath and a half and no luxury keyword.
MultiFamilyRow ==
    [With(With(With(With(With(With(ExampleRow, "zip_code", Num(1121500)),
          "beds", Num(500)), "full_baths", Num(100)), "half_baths", Num(100)),
          "sqft", Num(300000)), "year_built", Num(195000))
        EXCEPT !.style = "Multi Family", !.keywords = 0]

\* The rows that differ in what the rent index is asked for: the zip code,
\* the style and the bedrooms.
ZipRows ==
    {ExampleRow,
     With(ExampleRow, "zip_code", Bad),
     [With(With(With(With(With(ExampleRow, "zip_code", Num(1121500)), "beds", Num(600)),
          "list_price", Num(120000000)), "tax", Num(900000)), "hoa_fee", Num(30000))
        EXCEPT !.style = "Multi Family"],
     [With(With(ExampleRow, "zip_code", Num(1000200)), "list_price", Num(30000000))
        EXCEPT !.style = "Co-op"]}

\* The rows a property file is drawn from.
PropertyRows ==
    ZipRows \cup
    {With(ExampleRow, "list_price", Num(0)),
     With(ExampleRow, "list_price", Blank),
     With(With(ExampleRow, "list_price", Num(0)), "beds", Bad),
     With(ExampleRow, "beds", Bad),
     With(ExampleRow, "tax", Bad),
     With(ExampleRow, "list_price", Bad),
     With(With(With(ExampleRow, "parking_garage", Bad), "PTR", Num(3000)),
          "list_price", Num(15000000)),
     With(With(ExampleRow, "list_price", Num(80000000)), "year_built", Num(202300)),
     MultiFamilyRow,
     With(With(ExampleRow, "hoa_fee", Num(120000)), "parking_garage", Num(100)),
     With(ExampleRow, "hoa_fee", Num(60000)),
     With(ExampleRow, "list_price", Num(1000000)),
     With(ExampleRow, "hoa_fee", Num(250000)),
     With(ExampleRow, "hoa_fee", Num(400000))}

\* The property files: up to MaxRows rows, the property id the row's place.
PropertyFiles ==
    UNION {{[i \in 1..n |-> [f[i] EXCEPT !.id = i]] : f \in [1..n -> PropertyRows]} :
              n \in 1..MaxRows}

\* The property files of rows that differ in what the index is asked for.
ZipFiles ==
    UNION {{[i \in 1..n |-> [f[i] EXCEPT !.id = i]] : f \in [1..n -> ZipRows]} :
              n \in 1..MaxRows}

\* A rent series of ncols months rising by step a month to latest, with
\* bump on top in every January.
Series(latest, step, bump, ncols, last_month) ==
    [j \in 1..ncols |->
        Num(latest - step * (ncols - j)
            + (IF ((last_month - 1 + 12 * ncols - (ncols - j)) % 12) + 1 = 1
               THEN bump ELSE 0))]

\* The columns of the rent tables: 62 months, the last one a January.
TableCols == 62

\* A table one month short of the five years load_zori_data looks back.
ShortTableCols == 60

\* The series with the cell c in month j.
WithCell(series, j, c) == [series EXCEPT ![j] = c]

\* A table with gaps: 10001 has no rent in the final month, 10002 none a
\* year ago and a rent of 0 five years ago, 11215 a negative rent five
\* years ago, 11216 a negative rent a year ago, 07302 a cell that is no
\* number.
GapsTable ==
    [ncols |-> TableCols, last_month |-> 1,
     rows |-> <<[RegionName |-> Num(1000100), State |-> "NY",
                 series |-> WithCell(Series(300000, 1000, 0, TableCols, 1),
                                     TableCols, Blank)],
                [RegionName |-> Num(1000200), State |-> "NY",
                 series |-> WithCell(WithCell(Series(280000, 1000, 0, TableCols, 1),
                                              TableCols - OneYearOffset + 1, Blank),
                                     TableCols - FiveYearOffset + 1, Num(0))],
                [RegionName |-> Num(1121500), State |-> "NY",
                 series |-> WithCell(Series(250000, 500, 2000, TableCols, 1),
                                     TableCols - FiveYearOffset + 1, Num(-100000))],
                [RegionName |-> Num(1121600), State |-> "NY",
                 series |-> WithCell(Series(240000, 500, 0, TableCols, 1),
                                     TableCols - OneYearOffset + 1, Num(-120000))],
                [RegionName |-> Num(730200), State |-> "NJ",
                 series |-> WithCell(Series(260000, 500, 0, TableCols, 1),
                                     TableCols - SeasonWindow + 2, Bad)]>>]

\* A table without 10001 and 11215 and with two zips at distance 1 of
\* each: 10002 comes before 10000, and 11214 before 11216.
TieTable ==
    [ncols |-> TableCols, last_month |-> 1,
     rows |-> <<[RegionName |-> Num(1000200), State |-> "NY",
                 series |-> Series(280000, 1000, 0, TableCols, 1)],
                [RegionName |-> Num(1000000), State |-> "NY",
                 series |-> Series(260000, 500, 0, TableCols, 1)],
                [RegionName |-> Num(1121400), State |-> "NY",
                 series |-> Series(230000, 500, 0, TableCols, 1)],
                [RegionName |-> Num(1121600), State |-> "NY",
                 series |-> Series(240000, 1000, 0, TableCols, 1)]>>]

\* The rent-index tables the runs read.
ZoriTables ==
    <<[ncols |-> TableCols, last_month |-> 1,
       rows |-> <<[RegionName |-> Num(1000100), State |-> "NY",
                   series |-> Series(300000, 1000, 0, TableCols, 1)],
                  [RegionName |-> Num(1121500), State |-> "NY",
                   series |-> Series(250000, 500, 2000, TableCols, 1)]>>],
      [ncols |-> TableCols, last_month |-> 1, rows |-> <<>>],
      [ncols |-> ShortTableCols, last_month |-> 1,
       rows |-> <<[RegionName |-> Num(1000100), State |-> "NY",
                   series |-> Series(300000, 1000, 0, ShortTableCols, 1)]>>],
      GapsTable,
      TieTable>>

\* The moments the clock (datetime.now()) shows.
Moments == <<[month |-> 12, year |-> 2025], [month |-> 1, year |-> 2026]>>


\* ------------------------------------------------------------------------
\* The legacy cash-yield step (src/clacs.py)
\* ------------------------------------------------------------------------

\* The columns the step adds.
LegacyFields ==
    {"bre", "af", "fre_monthly", "fre", "tax_used", "hoa_fee_used",
     "noi_year1", "noi_year2", "noi_year3", "noi_year4", "noi_year5",
     "cap_rate", "transaction_est", "cash_equity", "ucf", "cash_yield"}

\* a or b of two cell texts: the first that is not empty.
OrCell(a, b) == IF a.t # "blank" THEN a ELSE b

\* float() of a cell text that is not empty: Raise for a text that is no number.
FloatText(c) == IF c.t = "num" THEN c.v ELSE Raise

\* The BRE block: [bre, sqft, raised].  bre is a cell (the product, or the
\* list-price text of the fallback), sqft in hundredths; raised when the
\* fallback's float() of the size text fails, which nothing catches.
ClacsBre(cols) ==
    LET sqft_str == OrCell(cols["sqft"], cols["lot_sqft"])
        price_per_sqft_str == cols["price_per_sqft"]
        sqft == FloatText(sqft_str)
        price_per_sqft == FloatText(price_per_sqft_str)
        computed == /\ sqft_str.t # "blank" /\ price_per_sqft_str.t # "blank"
                    /\ sqft # Raise /\ price_per_sqft # Raise
                    /\ sqft > 0 /\ price_per_sqft > 0
        fallback_sqft == FloatText(OrCell(sqft_str, Num(0)))
    IN IF computed
       THEN [bre |-> Num(MulDiv(sqft, price_per_sqft, 100)), sqft |-> sqft, raised |-> FALSE]
       ELSE [bre |-> OrCell(cols["list_price"], Num(0)), sqft |-> fallback_sqft,
             raised |-> fallback_sqft = Raise]

\* The NOI block: the fields it leaves in the row, in hundredths.  A tax, HOA
\* or list-price text that is no number raises inside the try; the handler
\* zeroes the ten result fields and keeps what was set before.
ClacsNoi(cols, fre) ==
    LET tax_cell == FloatOr0(cols, "tax")
        list_price == FloatOr0(cols, "list_price")
        hoa_cell == FloatOr0(cols, "hoa_fee")
        tax == IF tax_cell = 0 /\ list_price > 0 THEN MulDiv(list_price, 1, 100) ELSE tax_cell
        hoa_fee == IF hoa_cell = 0 /\ list_price > 0 THEN MulDiv(list_price, 15, 120000)
                   ELSE hoa_cell
        tax_raises == tax_cell = Raise \/ (tax_cell = 0 /\ list_price = Raise)
        hoa_raises == hoa_cell = Raise \/ (hoa_cell = 0 /\ list_price = Raise)
        fre2 == MulDiv(fre, 103, 100)
        fre3 == MulDiv(fre2, 103, 100)
        fre4 == MulDiv(fre3, 103, 100)
        fre5 == MulDiv(fre4, 103, 100)
        noi_year1 == fre - hoa_fee * 12
        transaction_est == MulDiv(list_price, 1, 100)
        cash_equity == MulDiv(list_price + transaction_est, 1, 2)
        ucf == noi_year1 - tax
        zeroed == [noi_year1 |-> Num(0), noi_year2 |-> Num(0), noi_year3 |-> Num(0),
                   noi_year4 |-> Num(0), noi_year5 |-> Num(0), cap_rate |-> Num(0),
                   transaction_est |-> Num(0), cash_equity |-> Num(0), ucf |-> Num(0),
                   cash_yield |-> Num(0)]
    IN IF tax_raises THEN zeroed
       ELSE IF hoa_raises THEN Put(zeroed, "tax_used", Num(tax))
       ELSE IF list_price = Raise
       THEN Put(Put(zeroed, "tax_used", Num(tax)), "hoa_fee_used", Num(hoa_fee))
       ELSE [tax_used |-> Num(tax), hoa_fee_used |-> Num(hoa_fee),
             noi_year1 |-> Num(noi_year1),
             noi_year2 |-> Num(fre2 - hoa_fee * 12),
             noi_year3 |-> Num(fre3 - hoa_fee * 12),
             noi_year4 |-> Num(fre4 - hoa_fee * 12),
             noi_year5 |-> Num(fre5 - hoa_fee * 12),
             cap_rate |-> Num(IF list_price # 0 THEN MulDiv(noi_year1, 10000, list_price)
                              ELSE 0),
             transaction_est |-> Num(transaction_est),
             cash_equity |-> Num(cash_equity),
             ucf |-> Num(ucf),
             cash_yield |-> Num(IF cash_equity # 0 THEN MulDiv(ucf, 10000, cash_equity)
                                ELSE 0)]

\* The body of the loop for one row: what becomes of it ("written", "skipped"
\* by continue, "raised" out of the loop) and the record written.
ClacsRow(row) ==
    LET cols == row.cols
        b == ClacsBre(cols)
        beds == FloatOr0(cols, "beds")
        full_baths == FloatOr0(cols, "full_baths")
        af == 10000 + 500 + 2 * beds + full_baths + (IF b.sqft > 200000 THEN 500 ELSE 0)
        ptr_value == FloatOr0(cols, "PTR")
        bre_value == FloatText(b.bre)
        fre_monthly == MulDiv(MulDiv(bre_value, ptr_value, 1000000), af, 10000)
        fre == fre_monthly * 12
        added == [k \in {"bre", "af", "fre_monthly", "fre"} |->
                     CASE k = "bre" -> b.bre
                       [] k = "af" -> Num(MulDiv(af, 1, 100))
                       [] k = "fre_monthly" -> Num(fre_monthly)
                       [] OTHER -> Num(fre)]
    IN IF b.raised \/ beds = Raise \/ full_baths = Raise
       THEN [outcome |-> "raised", row |-> row]
       ELSE IF ptr_value = Raise \/ bre_value = Raise
       THEN [outcome |-> "skipped", row |-> row]
       ELSE [outcome |-> "written",
             row |-> WriteRow(row, UpdateCols(UpdateCols(cols, added), ClacsNoi(cols, fre)),
                              (DOMAIN cols) \cup LegacyFields)]

\* ------------------------------------------------------------------------
\* The legacy mortgage script (src/calculate_mortgage.py)
\* ------------------------------------------------------------------------

\* The interest rate of the script, in 0.01%: 7.5%.
G18 == 750

\* The loan term of the script, in years.
G19 == 15

K40_values == <<1, 2, 3, 4, 5>>

\* cumprinc: the sum of schedule[start_period-1 : end_period], in cents.  The
\* payment npf.pmt(monthly_rate, periods, pv) is negative for a positive pv;
\* the loop starts from pv itself whatever start_period is.
cumprinc(rate, nper, pv, start_period, end_period) ==
    AmortizePeriods[<<pv, -pmt(rate, nper * 12, pv), rate,
                      end_period - start_period + 1, 0>>][1]

calculate_cumprinc_for_period(K40, rate, nper, K30) ==
    -cumprinc(rate, nper, K30, (K40 - 1) * 12 + 1, K40 * 12)

\* The columns the script adds.
MortgageFields == {"mpp", "mortgage_ending_balance"}

\* ------------------------------------------------------------------------
\* Inputs of the legacy step and of the financing functions
\* ------------------------------------------------------------------------

\* A row of updated_for_sale_with_ptr.csv: the example with a price per
\* square foot and a price-to-rent ratio of 0.0075.
LegacyRow == With(With(ExampleRow, "price_per_sqft", Num(41667)), "PTR", Num(7500))

\* The rows the legacy input is drawn from.
LegacyRows ==
    {LegacyRow,
     With(LegacyRow, "PTR", Bad),
     With(LegacyRow, "PTR", Blank),
     With(LegacyRow, "beds", Bad),
     With(LegacyRow, "sqft", Bad),
     With(LegacyRow, "tax", Bad),
     With(With(LegacyRow, "price_per_sqft", Blank), "list_price", Bad),
     With(With(LegacyRow, "price_per_sqft", Blank), "list_price", Num(0))}

LegacyFiles ==
    UNION {{[i \in 1..n |-> [f[i] EXCEPT !.id = i]] : f \in [1..n -> LegacyRows]} :
              n \in 1..MaxRows}

\* The rows the repeated runs read.
RerunRows ==
    {ExampleRow,
     With(ExampleRow, "beds", Bad),
     With(With(ExampleRow, "list_price", Num(80000000)), "year_built", Num(202300))}

RerunFiles ==
    UNION {{[i \in 1..n |-> [f[i] EXCEPT !.id = i]] : f \in [1..n -> RerunRows]} :
              n \in 1..MaxRows}

\* The runs of the engine in a row.
Runs == 2

\* The list prices (cents) the financing functions are called with: both
\* sides of every band edge.
ListPrices ==
    {15000000, 19999999, 20000000, 24999999, 25000000, 49999999, 50000000,
     74999999, 75000000, 99999999, 100000000, 200000000}

\* The five-year CAGRs (0.01%) a zip has in the growth table: negative, zero,
\* inside and outside the 2%..6% band, and 50%.
Cagrs == {-500, 0, 150, 200, 456, 600, 5000}

\* The arguments of one call: the zip has an entry in the growth table or not.
FnArgs ==
    [zip_code : {10001, 10002},
     neighborhood_factor : QualityFactors \cup {DefaultQuality},
     property_style : Styles \cup {"Other"},
     growth_rates_by_zip :
         {EmptyDict} \cup {[z \in {10001} |-> [one_year |-> 0, five_year_cagr |-> c]] :
                              c \in Cagrs},
     list_price : ListPrices]

\* ------------------------------------------------------------------------
\* State
\* ------------------------------------------------------------------------

VARIABLES
    property_file,  \* PROPERTY_DATA_FILE: the rows read
    zori_file,      \* ZILLOW_RENT_DATA_FILE: which of ZoriTables it holds
    temp_zori,      \* TEMP_ZORI_ESTIMATES
    temp_cash,      \* TEMP_CASH_FLOW
    final_file,     \* OUTPUT_FINAL_FILE
    index,          \* what load_zori_data returned to process_rental_estimates
    pc,             \* where main is
    now,            \* the clock: an index of Moments
    run,            \* the number of the run
    used_now,       \* the clock the run's rent estimation read
    prev_final,     \* OUTPUT_FINAL_FILE as the previous run left it
    prev_now,       \* the clock the previous run's rent estimation read
    fn_args,        \* the arguments the financing functions are called with
    fn_ret,         \* what they returned, None before the call
    clacs_in,       \* updated_for_sale_with_ptr.csv
    clacs_out,      \* cash_yield.csv
    clacs_i,        \* the reader's position: the next row
    clacs_pc,       \* where the legacy step is
    mortgage_out,   \* mortgage.csv
    mortgage_i,     \* the mortgage script's position in cash_yield.csv
    cumprinc_paid   \* what calculate_cumprinc_for_period returned for the row

engineVars == <<property_file, zori_file, temp_zori, temp_cash, final_file, index, pc,
                now, run, used_now, prev_final, prev_now>>

fnVars == <<fn_args, fn_ret>>

legacyVars == <<clacs_in, clacs_out, clacs_i, clacs_pc, mortgage_out, mortgage_i,
                cumprinc_paid>>

vars == <<engineVars, fnVars, legacyVars>>

\* ------------------------------------------------------------------------
\* The engine's run (main)
\* ------------------------------------------------------------------------

\* open(path, 'a'): the rows stay.
OpenForAppending(file) == file

\* open(path, 'w'): the file's rows once it is open for writing.
OpenForWriting(file) == <<>>

\* The engine before main runs: no temporary or output file.
InitEngine(files, tables) ==
    /\ property_file \in files
    /\ zori_file \in tables
    /\ temp_zori = <<>>
    /\ temp_cash = <<>>
    /\ final_file = <<>>
    /\ index = [ok |-> FALSE]
    /\ pc = "start"
    /\ now = 1
    /\ run = 1
    /\ used_now = 0
    /\ prev_final = <<>>
    /\ prev_now = 0

\* The engine is not run.
IdleEngine ==
    /\ property_file = <<>>
    /\ zori_file = 1
    /\ temp_zori = <<>>
    /\ temp_cash = <<>>
    /\ final_file = <<>>
    /\ index = [ok |-> FALSE]
    /\ pc = "idle"
    /\ now = 1
    /\ run = 1
    /\ used_now = 0
    /\ prev_final = <<>>
    /\ prev_now = 0

NoReturn == [growth_rate |-> None, down_payment_pct |-> None, interest_rate |-> None,
             loan_term |-> None]

\* No financing function is called.
IdleFn ==
    /\ fn_args = [zip_code |-> NoZip, neighborhood_factor |-> DefaultQuality,
                  property_style |-> "Other", growth_rates_by_zip |-> EmptyDict,
                  list_price |-> 0]
    /\ fn_ret = NoReturn

\* The legacy step is not run.
IdleLegacy ==
    /\ clacs_in = <<>>
    /\ clacs_out = <<>>
    /\ clacs_i = 1
    /\ clacs_pc = "idle"
    /\ mortgage_out = <<>>
    /\ mortgage_i = 1
    /\ cumprinc_paid = <<>>

\* process_rental_estimates: the index is loaded, then every row of the
\* property file is estimated and written.  A table load_zori_data cannot
\* read ends main (sys.exit(1)) with no file written.  datetime.now() is
\* read for every row; the clock moves between the stages only, so the
\* rows of one run are estimated at one moment.
ProcessRentalEstimates ==
    /\ pc = "start"
    /\ \E idx \in {load_zori_data(ZoriTables[zori_file])} :
          /\ index' = idx
          /\ temp_zori' = IF idx.ok
                          THEN OpenForWriting(temp_zori)
                               \o [i \in 1..Len(property_file) |->
                                     RentalEstimateRow(property_file[i], idx, Moments[now])]
                          ELSE temp_zori
          /\ pc' = IF idx.ok THEN "rent" ELSE "failed"
    /\ used_now' = now
    /\ UNCHANGED <<property_file, zori_file, temp_cash, final_file, now, run,
                   prev_final, prev_now, fnVars, legacyVars>>

\* process_investment_metrics
ProcessInvestmentMetrics ==
    /\ pc = "rent"
    /\ temp_cash' = OpenForWriting(temp_cash)
                    \o [i \in 1..Len(temp_zori) |-> InvestmentMetricsRow(temp_zori[i])]
    /\ pc' = "cash"
    /\ UNCHANGED <<property_file, zori_file, temp_zori, final_file, index, now, run,
                   used_now, prev_final, prev_now, fnVars, legacyVars>>

\* process_final_metrics
ProcessFinalMetrics ==
    /\ pc = "cash"
    /\ final_file' = OpenForWriting(final_file)
                     \o [i \in 1..Len(temp_cash) |-> FinalMetricsRow(temp_cash[i])]
    /\ pc' = "final"
    /\ UNCHANGED <<property_file, zori_file, temp_zori, temp_cash, index, now, run,
                   used_now, prev_final, prev_now, fnVars, legacyVars>>

\* clean_up_temp_files
CleanUp ==
    /\ pc = "final"
    /\ temp_zori' = <<>>
    /\ temp_cash' = <<>>
    /\ pc' = "done"
    /\ UNCHANGED <<property_file, zori_file, final_file, index, now, run, used_now,
                   prev_final, prev_now, fnVars, legacyVars>>

Init ==
    /\ \/ InitEngine(PropertyFiles, {1})
       \/ InitEngine(ZipFiles, 2..Len(ZoriTables))
    /\ IdleFn
    /\ IdleLegacy

Next == ProcessRentalEstimates \/ ProcessInvestmentMetrics \/ ProcessFinalMetrics
            \/ CleanUp

Spec == Init /\ [][Next]_vars

\* ------------------------------------------------------------------------
\* The engine run again on the same input
\* ------------------------------------------------------------------------

\* main is started again: the input files are as they were, the output of
\* the run before is on disk.
Rerun ==
    /\ pc = "done"
    /\ run < Runs
    /\ run' = run + 1
    /\ prev_final' = final_file
    /\ prev_now' = used_now
    /\ pc' = "start"
    /\ UNCHANGED <<property_file, zori_file, temp_zori, temp_cash, final_file, index,
                   now, used_now, fnVars, legacyVars>>

\* The calendar month passes.
Tick ==
    /\ now < Len(Moments)
    /\ now' = now + 1
    /\ UNCHANGED <<property_file, zori_file, temp_zori, temp_cash, final_file, index, pc,
                   run, used_now, prev_final, prev_now, fnVars, legacyVars>>

InitRerun == InitEngine(RerunFiles, {1}) /\ IdleFn /\ IdleLegacy

NextRerun == ProcessRentalEstimates \/ ProcessInvestmentMetrics \/ ProcessFinalMetrics
                \/ CleanUp \/ Rerun \/ Tick

SpecRerun == InitRerun /\ [][NextRerun]_vars

\* ------------------------------------------------------------------------
\* The financing functions called on their own
\* ------------------------------------------------------------------------

InitFn == IdleEngine /\ IdleLegacy /\ fn_args \in FnArgs /\ fn_ret = NoReturn

CallGrowthRate ==
    /\ fn_ret.growth_rate = None
    /\ fn_ret' = [fn_ret EXCEPT !.growth_rate =
                     calculate_growth_rate(fn_args.zip_code, fn_args.neighborhood_factor,
                                           fn_args.property_style,
                                           fn_args.growth_rates_by_zip)]
    /\ UNCHANGED <<fn_args, engineVars, legacyVars>>

CallDownPaymentPct ==
    /\ fn_ret.down_payment_pct = None
    /\ fn_ret' = [fn_ret EXCEPT !.down_payment_pct =
                     calculate_down_payment_pct(fn_args.list_price,
                                                fn_args.neighborhood_factor)]
    /\ UNCHANGED <<fn_args, engineVars, legacyVars>>

CallMortgageTerms ==
    /\ fn_ret.interest_rate = None
    /\ LET terms == determine_mortgage_terms(fn_args.list_price, fn_args.neighborhood_factor)
       IN fn_ret' = [fn_ret EXCEPT !.interest_rate = terms[1], !.loan_term = terms[2]]
    /\ UNCHANGED <<fn_args, engineVars, legacyVars>>

NextFn == CallGrowthRate \/ CallDownPaymentPct \/ CallMortgageTerms

SpecFn == InitFn /\ [][NextFn]_vars

\* ------------------------------------------------------------------------
\* The legacy step run over its input
\* ------------------------------------------------------------------------

InitLegacy ==
    /\ IdleEngine /\ IdleFn
    /\ clacs_in \in LegacyFiles
    /\ clacs_out = <<>>
    /\ clacs_i = 1
    /\ clacs_pc = "loop"
    /\ mortgage_out = <<>>
    /\ mortgage_i = 1
    /\ cumprinc_paid = <<>>

\* One turn of the loop over the reader: the row is written, or skipped, or
\* its ValueError ends the script with the rows written so far.
ClacsStep ==
    /\ clacs_pc = "loop"
    /\ clacs_i <= Len(clacs_in)
    /\ LET r == ClacsRow(clacs_in[clacs_i])
       IN /\ clacs_out' = IF r.outcome = "written" THEN Append(clacs_out, r.row)
                          ELSE clacs_out
          /\ clacs_pc' = IF r.outcome = "raised" THEN "raised"
                         ELSE IF clacs_i = Len(clacs_in) THEN "done" ELSE "loop"
    /\ clacs_i' = clacs_i + 1
    /\ UNCHANGED <<clacs_in, mortgage_out, mortgage_i, cumprinc_paid, engineVars, fnVars>>

\* The mortgage script, run on cash_yield.csv once the legacy step has
\* ended: one call of calculate_cumprinc_for_period of the sum over
\* K40_values, for a row whose cash_equity float() takes.
CumprincForPeriod ==
    /\ clacs_pc \in {"done", "raised"}
    /\ mortgage_i <= Len(clacs_out)
    /\ Len(cumprinc_paid) < Len(K40_values)
    /\ FloatOr0(clacs_out[mortgage_i].cols, "cash_equity") # Raise
    /\ cumprinc_paid' =
           Append(cumprinc_paid,
                  calculate_cumprinc_for_period(
                      K40_values[Len(cumprinc_paid) + 1], G18, G19,
                      FloatOr0(clacs_out[mortgage_i].cols, "cash_equity")))
    /\ UNCHANGED <<clacs_in, clacs_out, clacs_i, clacs_pc, mortgage_out, mortgage_i,
                   engineVars, fnVars>>

\* The row is written: the sum of the five calls and cash_equity less the
\* sum, or 0.0 and 0.0 when float() raised.
MortgageRow ==
    /\ clacs_pc \in {"done", "raised"}
    /\ mortgage_i <= Len(clacs_out)
    /\ LET row == clacs_out[mortgage_i]
           cash_equity == FloatOr0(row.cols, "cash_equity")
           total == cumprinc_paid[1] + cumprinc_paid[2] + cumprinc_paid[3]
                        + cumprinc_paid[4] + cumprinc_paid[5]
           added == IF cash_equity = Raise
                    THEN [k \in MortgageFields |-> Num(0)]
                    ELSE [k \in MortgageFields |->
                             IF k = "mpp" THEN Num(total) ELSE Num(cash_equity - total)]
       IN /\ cash_equity = Raise \/ Len(cumprinc_paid) = Len(K40_values)
          /\ mortgage_out' = Append(mortgage_out,
                                    WriteRow(row, UpdateCols(row.cols, added),
                                             (DOMAIN row.cols) \cup MortgageFields))
    /\ mortgage_i' = mortgage_i + 1
    /\ cumprinc_paid' = <<>>
    /\ UNCHANGED <<clacs_in, clacs_out, clacs_i, clacs_pc, engineVars, fnVars>>

NextLegacy == ClacsStep \/ CumprincForPeriod \/ MortgageRow

SpecLegacy == InitLegacy /\ [][NextLegacy]_vars

\* ------------------------------------------------------------------------
\* Properties of the financing functions (SpecFn)
\* ------------------------------------------------------------------------

\* The five-year CAGR the growth table holds for the zip of the call,
\* DefaultCagr for a zip it does not hold.
CagrOfCall ==
    IF fn_args.zip_code \in DOMAIN fn_args.growth_rates_by_zip
    THEN fn_args.growth_rates_by_zip[fn_args.zip_code].five_year_cagr
    ELSE DefaultCagr

\* C1: whatever the zip (in the growth table or not), the neighborhood
\* factor, the property style and the zip's five-year CAGR, the growth rate
\* calculate_growth_rate returns is between 2% and 10%.
C1_GrowthRateInRange ==
    fn_ret.growth_rate # None => fn_ret.growth_rate \in 200..1000

\* calculate_growth_rate has returned for a zip with a negative CAGR.
C1_Witness ==
    /\ fn_ret.growth_rate # None
    /\ fn_args.zip_code \in DOMAIN fn_args.growth_rates_by_zip
    /\ CagrOfCall < 0

\* C2 as stated: with a five-year CAGR of 50% the growth rate is 10%, for
\* every neighborhood factor and every property style.
C2_Original ==
    (fn_ret.growth_rate # None /\ CagrOfCall = 5000) => fn_ret.growth_rate = 1000

\* C2: with a five-year CAGR of 50% the base rate is cut to 6% before the
\* adjustments are added, so the growth rate is 6% plus twice the
\* neighborhood factor plus the style's growth modifier less one: between
\* 7.45% and 7.98%, never the upper clamp of 10%.
C2_BaseCutToSix ==
    (fn_ret.growth_rate # None /\ CagrOfCall = 5000)
        => /\ fn_ret.growth_rate = 600 + fn_args.neighborhood_factor * 2
                                       + (GrowthModifier(fn_args.property_style) - 100)
           /\ fn_ret.growth_rate \in 745..798

\* calculate_growth_rate has returned for a multi-family property in the
\* best neighborhood of a zip whose CAGR is 50%.
C2_Witness ==
    /\ fn_ret.growth_rate # None
    /\ CagrOfCall = 5000
    /\ fn_args.neighborhood_factor = 95
    /\ fn_args.property_style = "Multi Family"

\* C3: for every list price and every neighborhood factor of the table the
\* down payment calculate_down_payment_pct returns is between 0.30 and 0.60
\* and the interest rate determine_mortgage_terms returns between 6% and 9%.
C3_FinancingInRange ==
    /\ fn_ret.down_payment_pct # None => fn_ret.down_payment_pct \in 3000..6000
    /\ fn_ret.interest_rate # None => fn_ret.interest_rate \in 600..900

\* Both functions have returned for the cheapest price in the best
\* neighborhood.
C3_Witness ==
    /\ fn_ret.down_payment_pct # None
    /\ fn_ret.interest_rate # None
    /\ fn_args.list_price = 15000000
    /\ fn_args.neighborhood_factor = 95

\* The calls are those of the end-to-end example (500,000 in zip 10001) and
\* both financing functions have returned.
ExampleFinanced ==
    /\ fn_args.list_price = 50000000
    /\ fn_args.zip_code = 10001
    /\ fn_args.neighborhood_factor = get_neighborhood_factor(10001)
    /\ fn_ret.down_payment_pct # None
    /\ fn_ret.interest_rate # None

\* C4 as stated: the example is financed with a down payment of 0.3925 at
\* 7.60% over 20 years.
C4_Original ==
    ExampleFinanced
        => /\ fn_ret.down_payment_pct = 3925
           /\ fn_ret.interest_rate = 760
           /\ fn_ret.loan_term = 20

\* C4: a list price of 500,000 is not below 500,000, so the example falls
\* in the 45% and 7.50% bands: with the neighborhood factor 0.9 the down
\* payment is 0.4425, the interest rate 7.35% and the term 20 years.
C4_ExampleFinancing ==
    ExampleFinanced
        => /\ get_neighborhood_factor(10001) = 90
           /\ fn_ret.down_payment_pct = 4425
           /\ fn_ret.interest_rate = 735
           /\ fn_ret.loan_term = 20

\* The example's financing has been computed.
C4_Witness == ExampleFinanced /\ fn_ret.loan_term = 20

\* ------------------------------------------------------------------------
\* Properties of the engine's output (Spec)
\* ------------------------------------------------------------------------

\* The final file is written.
FinalWritten == pc \in {"final", "done"}

\* The year-indexed columns of the final file.
YearFields ==
    {"noi_year1", "noi_year2", "noi_year3", "noi_year4", "noi_year5",
     "ucf_year1", "ucf_year2", "ucf_year3", "ucf_year4", "ucf_year5",
     "principal_paid_year1", "principal_paid_year2", "principal_paid_year3",
     "principal_paid_year4", "principal_paid_year5",
     "loan_balance_year1", "loan_balance_year2", "loan_balance_year3",
     "loan_balance_year4", "loan_balance_year5",
     "lcf_year1", "lcf_year2", "lcf_year3", "lcf_year4", "lcf_year5"}

\* C5: the output record of a property whose list price is zero or missing
\* reports cap_rate, cash_yield, cash_on_cash and irr as 0, whether or not
\* the property has a rent estimate.
C5_ZeroPriceReportsZero ==
    FinalWritten
        => \A i \in 1..Len(final_file) :
              final_file[i].cols["list_price"] \in {Num(0), Blank}
                  => \A k \in {"cap_rate", "cash_yield", "cash_on_cash", "irr"} :
                        final_file[i].cols[k] = Num(0)

\* C8: in every output record each of the five year-indexed series (NOI,
\* unlevered cash flow, principal paid, loan balance, levered cash flow) has
\* a value for each of the years 1 to 5.
C8_AllSeriesHaveFiveYears ==
    FinalWritten
        => \A i \in 1..Len(final_file) :
              \A k \in YearFields : IsNum(final_file[i].cols[k])

\* The output record i is financed: its interest rate and its loan term are
\* positive.
Financed(i) ==
    /\ IsNum(final_file[i].cols["interest_rate"])
    /\ final_file[i].cols["interest_rate"].v > 0
    /\ IsNum(final_file[i].cols["loan_term"])
    /\ final_file[i].cols["loan_term"].v > 0

\* C9: in every output record whose interest rate and loan term are
\* positive the year-end loan balances are strictly decreasing from year 1
\* to year 5 and the balance of year 5 is below the loan amount.
C9_BalancesDecrease ==
    FinalWritten
        => \A i \in 1..Len(final_file) :
              Financed(i)
                  => LET c == final_file[i].cols
                     IN /\ \A k \in {"loan_amount", "loan_balance_year1",
                                     "loan_balance_year2", "loan_balance_year3",
                                     "loan_balance_year4", "loan_balance_year5"} :
                              IsNum(c[k])
                        /\ c["loan_balance_year1"].v > c["loan_balance_year2"].v
                        /\ c["loan_balance_year2"].v > c["loan_balance_year3"].v
                        /\ c["loan_balance_year3"].v > c["loan_balance_year4"].v
                        /\ c["loan_balance_year4"].v > c["loan_balance_year5"].v
                        /\ c["loan_balance_year5"].v < c["loan_amount"].v

\* The final file holds a financed record with a balance left after year 5.
C9_Witness ==
    /\ FinalWritten
    /\ \E i \in 1..Len(final_file) :
          Financed(i) /\ final_file[i].cols["loan_balance_year5"].v > 0

\* ------------------------------------------------------------------------
\* Properties of the legacy step (SpecLegacy)
\* ------------------------------------------------------------------------

\* C6: the stage emits exactly one output record per input row, in input
\* order, rows with a missing or invalid PTR included: once the loop is
\* over the output holds the input's rows one for one.
C6_OneRecordPerRow ==
    clacs_pc = "done"
        => /\ Len(clacs_out) = Len(clacs_in)
           /\ \A i \in 1..Len(clacs_in) : clacs_out[i].id = clacs_in[i].id

\* C7: a non-numeric text in a numeric column never aborts the batch: no
\* row's error leaves the loop, and once the reader is exhausted every row
\* with such a text in sqft, beds, tax or list_price has been written.
C7_NeverAborts ==
    /\ clacs_pc # "raised"
    /\ clacs_i > Len(clacs_in)
          => \A i \in 1..Len(clacs_in) :
                (\E k \in {"sqft", "beds", "tax", "list_price"} : clacs_in[i].cols[k] = Bad)
                    => \E j \in 1..Len(clacs_out) : clacs_out[j].id = i

\* ------------------------------------------------------------------------
\* Properties of repeated runs (SpecRerun)
\* ------------------------------------------------------------------------

\* C10: a run of the engine on the input of the run before it, at the same
\* calendar month and year, writes the output the run before it wrote.
C10_SameInputSameOutput ==
    (run >= 2 /\ FinalWritten /\ used_now = prev_now) => final_file = prev_final

\* A second run at the moment of the first has written a record with a rent
\* estimate.
C10_Witness ==
    /\ run >= 2
    /\ FinalWritten
    /\ used_now = prev_now
    /\ \E i \in 1..Len(final_file) : IsNum(final_file[i].cols["zori_monthly_rent"])

\* ------------------------------------------------------------------------
\* Properties of the cash-flow fields (Spec)
\* ------------------------------------------------------------------------

RentWritten == pc \in {"rent", "cash", "final"}

\* C12: the monthly rent estimate of a multi-family property with four or
\* more bedrooms is the base index rent of its zip times max(2, beds // 2)
\* times 0.85, whatever its baths, size, age, amenities, rent modifier and
\* the month's seasonality.
C12_MultiFamilyRent ==
    RentWritten
        => \A i \in 1..Len(temp_zori) :
              LET r == temp_zori[i]
              IN (/\ r.style = "Multi Family"
                  /\ IsNum(r.cols["beds"]) /\ r.cols["beds"].v >= 400
                  /\ IsNum(r.cols["zip_code"])
                  /\ IsNum(r.cols["zori_monthly_rent"]))
                    => r.cols["zori_monthly_rent"].v
                          = MulDiv(index.zori_by_zip[
                                       find_closest_zip_with_data(
                                           r.cols["zip_code"].v \div 100, index)]
                                     * Max(2, r.cols["beds"].v \div 200),
                                   85, 100)

\* Two multi-family buildings of one zip that differ in baths, size, age and
\* keywords are estimated in a month whose seasonality is not 0: the one
\* with six bedrooms at three units, the one with five at two.
C12_Witness ==
    /\ RentWritten
    /\ index.avg_seasonality[Moments[used_now].month] # 0
    /\ \E i, j \in 1..Len(temp_zori) :
          /\ temp_zori[i].style = "Multi Family"
          /\ temp_zori[j].style = "Multi Family"
          /\ temp_zori[i].cols["beds"] = Num(600)
          /\ temp_zori[j].cols["beds"] = Num(500)
          /\ temp_zori[i].cols["sqft"] # temp_zori[j].cols["sqft"]
          /\ temp_zori[i].cols["zori_monthly_rent"] = Num(642600)
          /\ temp_zori[j].cols["zori_monthly_rent"] = Num(428400)

\* C13: in every output record tax_used is the input tax when that is not
\* zero and 1% of the list price when it is zero or missing, hoa_fee_used
\* is the input monthly HOA fee when that is not zero and 0.15% of the list
\* price over 12 when it is zero or missing, and these are the amounts
\* taken off in noi_year1 and ucf_year1.
C13_TaxAndHoaUsed ==
    FinalWritten
        => \A i \in 1..Len(final_file) :
              LET c == final_file[i].cols
              IN (\A k \in {"tax", "hoa_fee", "list_price"} : c[k] # Bad)
                    => /\ c["tax_used"]
                              = Num(IF c["tax"].v # 0 THEN c["tax"].v
                                    ELSE MulDiv(c["list_price"].v, 1, 100))
                       /\ c["hoa_fee_used"]
                              = Num(IF c["hoa_fee"].v # 0 THEN c["hoa_fee"].v
                                    ELSE MulDiv(c["list_price"].v, 15, 120000))
                       /\ c["noi_year1"]
                              = Num(c["annual_rent"].v - 12 * c["hoa_fee_used"].v)
                       /\ c["ucf_year1"] = Num(c["noi_year1"].v - c["tax_used"].v)

\* ------------------------------------------------------------------------
\* Properties of the return fields (Spec)
\* ------------------------------------------------------------------------

\* The output record i has an equity at exit.
HasEquity(i) == IsNum(final_file[i].cols["equity_at_exit"])

\* C14 as stated: in every output record loan_balance_year5 plus
\* accumulated_cash_flow plus exit_value minus loan_balance_year5 is
\* equity_at_exit.
C14_Original ==
    FinalWritten
        => \A i \in 1..Len(final_file) :
              LET c == final_file[i].cols
              IN HasEquity(i)
                    => c["loan_balance_year5"].v + c["accumulated_cash_flow"].v
                           + c["exit_value"].v - c["loan_balance_year5"].v
                       = c["equity_at_exit"].v

\* C14: in every output record equity_at_exit plus loan_balance_year5 is
\* exit_value plus accumulated_cash_flow: the balance is taken off once and
\* not added back.
C14_EquityPlusBalance ==
    FinalWritten
        => \A i \in 1..Len(final_file) :
              LET c == final_file[i].cols
              IN HasEquity(i)
                    => c["equity_at_exit"].v + c["loan_balance_year5"].v
                       = c["exit_value"].v + c["accumulated_cash_flow"].v

\* The final file holds a financed record with an equity at exit, an exit
\* value and a balance left after year 5.
C14_Witness ==
    /\ FinalWritten
    /\ \E i \in 1..Len(final_file) :
          /\ Financed(i) /\ HasEquity(i)
          /\ final_file[i].cols["exit_value"].v > 0
          /\ final_file[i].cols["loan_balance_year5"].v > 0

\* C15: in every output record equity_at_exit is exit_value less
\* final_loan_balance plus the sum of lcf_year1 to lcf_year5, and
\* final_loan_balance is the loan balance after year 5.
C15_EquityAtExit ==
    FinalWritten
        => \A i \in 1..Len(final_file) :
              LET c == final_file[i].cols
              IN HasEquity(i)
                    => /\ c["equity_at_exit"].v
                              = c["exit_value"].v - c["final_loan_balance"].v
                                  + (c["lcf_year1"].v + c["lcf_year2"].v + c["lcf_year3"].v
                                       + c["lcf_year4"].v + c["lcf_year5"].v)
                       /\ c["final_loan_balance"] = c["loan_balance_year5"]

\* The final file holds a financed record with an equity at exit whose
\* levered cash flows are not all 0.
C15_Witness ==
    /\ FinalWritten
    /\ \E i \in 1..Len(final_file) :
          /\ Financed(i) /\ HasEquity(i)
          /\ final_file[i].cols["final_loan_balance"].v > 0
          /\ final_file[i].cols["lcf_year1"].v # 0
          /\ final_file[i].cols["lcf_year5"].v # final_file[i].cols["lcf_year1"].v

\* ------------------------------------------------------------------------
\* Frame of the final stage (Spec)
\* ------------------------------------------------------------------------

\* The final file is written and the files it was made from are still there.
StagesWritten == pc = "final"

\* C16: every field of the rent-estimate and cash-flow stages has the same
\* value in the final record as in the record its stage wrote: the mortgage
\* and return stage only adds fields.
C16_EarlierFieldsKept ==
    StagesWritten
        => \A i \in 1..Len(final_file) :
              /\ \A k \in InputFields \cup ZoriFields :
                    final_file[i].cols[k] = temp_zori[i].cols[k]
              /\ \A k \in CashFlowFields :
                    final_file[i].cols[k] = temp_cash[i].cols[k]

\* ------------------------------------------------------------------------
\* Properties of the rent index (Spec)
\* ------------------------------------------------------------------------

\* The table the run reads.
ZoriTable == ZoriTables[zori_file]

\* load_zori_data has run.
IndexLoaded == pc # "start"

\* No cell of the row r of the rent table is a text that is no number.
Readable(r) ==
    /\ r.RegionName.t = "num"
    /\ \A j \in DOMAIN r.series : r.series[j] # Bad

\* The zip of a readable row of the rent table.
ZipOf(r) == r.RegionName.v \div 100

\* C17: load_zori_data returns an index for every table, whatever its
\* number of rows and monthly columns; a row with a cell that is no number
\* is not in the index, every other row with a rent in the final month is.
C17_IndexAlwaysBuilt ==
    IndexLoaded
        => /\ pc # "failed"
           /\ index.ok
           /\ \A j \in 1..Len(ZoriTable.rows) :
                 LET r == ZoriTable.rows[j]
                 IN IF Readable(r)
                    THEN Truthy(FloatOrNone(r.series[ZoriTable.ncols]))
                            => ZipOf(r) \in DOMAIN index.zori_by_zip
                    ELSE r.RegionName.t = "num"
                            => ZipOf(r) \notin DOMAIN index.zori_by_zip

\* clean_zillow_data's last_value: the last cell of the series that is not
\* empty, the empty cell when there is none.
LastValue(series) ==
    LET date_values == {j \in DOMAIN series : series[j] # Blank}
    IN IF date_values = {} THEN Blank
       ELSE series[CHOOSE j \in date_values : \A k \in date_values : k <= j]

\* C18: the rent the index holds for the zip of a row of the table is the
\* row's most recent observation that is not empty, and a row whose final
\* month is empty but which has an earlier observation is in the index.
C18_LatestIsLastObservation ==
    (IndexLoaded /\ index.ok)
        => \A j \in 1..Len(ZoriTable.rows) :
              LET r == ZoriTable.rows[j]
                  last_value == LastValue(r.series)
              IN Readable(r)
                    => /\ ZipOf(r) \in DOMAIN index.zori_by_zip
                             => index.zori_by_zip[ZipOf(r)] = last_value.v
                       /\ (r.series[ZoriTable.ncols] = Blank /\ last_value.v > 0)
                             => ZipOf(r) \in DOMAIN index.zori_by_zip

\* The cell of the row r of the table offset months back, the final month
\* being 1 back.
CellBack(r, offset) == r.series[ZoriTable.ncols - offset + 1]

\* C19: every readable row with a rent in the final month is in the index,
\* with a one-year growth of 0 when its rent 12 months before is missing,
\* zero or negative and a five-year CAGR of 0 when its rent 60 months
\* before is.
C19_GrowthZeroWithoutHistory ==
    (IndexLoaded /\ index.ok)
        => \A j \in 1..Len(ZoriTable.rows) :
              LET r == ZoriTable.rows[j]
              IN (Readable(r) /\ Truthy(FloatOrNone(CellBack(r, 1))))
                    => /\ ZipOf(r) \in DOMAIN index.growth_rates_by_zip
                       /\ ZipOf(r) \in DOMAIN index.growth_rates_by_zip
                             => LET growth == index.growth_rates_by_zip[ZipOf(r)]
                                IN /\ CellBack(r, OneYearOffset).v <= 0
                                         => growth.one_year = 0
                                   /\ CellBack(r, FiveYearOffset).v <= 0
                                         => growth.five_year_cagr = 0

\* ------------------------------------------------------------------------
\* Properties of the rent estimate (Spec)
\* ------------------------------------------------------------------------

\* The zips of the index closest to own_zip.
Nearest(own_zip) ==
    {z \in DOMAIN index.zori_by_zip :
        \A y \in DOMAIN index.zori_by_zip : Abs(z - own_zip) <= Abs(y - own_zip)}

\* The estimate of the property row i of the run.
EstimateOf(i) == estimate_rental_income(property_file[i], index, Moments[used_now])

PlaceOf(z) == CHOOSE n \in 1..Len(index.zips) : index.zips[n] = z

\* C21: the zip an estimate is resolved to is the property's own zip when
\* the index has it; else it is a zip of the index at the least distance
\* from the property's zip, and the first inserted of the zips at that
\* distance.
C21_ClosestZipFirstInserted ==
    RentWritten
        => \A i \in 1..Len(property_file) :
              LET own_zip == property_file[i].cols["zip_code"].v \div 100
                  e == EstimateOf(i)
              IN (property_file[i].cols["zip_code"] # Bad /\ e.ok)
                    => IF own_zip \in DOMAIN index.zori_by_zip
                       THEN e.zip_code = own_zip
                       ELSE /\ e.zip_code \in Nearest(own_zip)
                            /\ \A z \in Nearest(own_zip) :
                                  PlaceOf(e.zip_code) <= PlaceOf(z)

\* An estimate is written for a property whose zip the index lacks and
\* which has two zips of the index at the least distance, the first
\* inserted of them the greater one.
C21_Witness ==
    /\ RentWritten
    /\ \E i \in 1..Len(property_file) :
          LET own_zip == property_file[i].cols["zip_code"].v \div 100
          IN /\ property_file[i].cols["zip_code"] # Bad
             /\ own_zip \notin DOMAIN index.zori_by_zip
             /\ IsNum(temp_zori[i].cols["zori_monthly_rent"])
             /\ \E y, z \in Nearest(own_zip) : y < z /\ PlaceOf(z) < PlaceOf(y)

\* C22: the amenity score of every estimated property is 1 plus 0.01 a
\* luxury keyword up to 0.20, plus 0.05 for a parking-garage count above 0,
\* plus 0.10 for an HOA fee above 1000, 0.05 for one above 500 and up to
\* 1000, and nothing for one of 500 or less.
C22_AmenityScoreBands ==
    RentWritten
        => \A i \in 1..Len(property_file) :
              LET row == property_file[i]
                  hoa_fee == row.cols["hoa_fee"]
                  parking_garage == row.cols["parking_garage"]
              IN (hoa_fee # Bad /\ parking_garage # Bad)
                    => calculate_amenity_score(row)
                          = 100 + Min(20, row.keywords)
                              + (IF parking_garage.v > 0 THEN 5 ELSE 0)
                              + (IF hoa_fee.v > 100000 THEN 10
                                 ELSE IF hoa_fee.v > 50000 THEN 5 ELSE 0)

\* ------------------------------------------------------------------------
\* Properties of the exit cap rate (Spec)
\* ------------------------------------------------------------------------

\* The expansion of the cap rate of the record c, a decimal in 1/1000000.
ExpansionOf(c) ==
    Max(0, 10000 - (get_neighborhood_factor(c["zip_code"].v \div 100) - 75) * 150
             - (c["zori_growth_rate"].v - 300) * 50)

\* C23: in every output record with returns the exit cap rate is the entry
\* cap rate (whatever its size, 100% and more included) plus the expansion,
\* held within 4% and 10%; and of two records of one zip and one growth rate
\* the one with the lower entry cap rate has no higher exit cap rate.
C23_ExitCapRate ==
    FinalWritten
        => \A i \in 1..Len(final_file) :
              LET c == final_file[i].cols
              IN HasEquity(i)
                    => /\ c["exit_cap_rate"].v
                              = MulDiv(Min(100000, Max(40000, c["cap_rate"].v * 100
                                                                  + ExpansionOf(c))),
                                       1, 100)
                       /\ c["exit_cap_rate"].v \in 400..1000
                       /\ \A j \in 1..Len(final_file) :
                             LET d == final_file[j].cols
                             IN (HasEquity(j) /\ d["zip_code"] = c["zip_code"]
                                   /\ d["zori_growth_rate"] = c["zori_growth_rate"]
                                   /\ d["cap_rate"].v <= c["cap_rate"].v)
                                   => d["exit_cap_rate"].v <= c["exit_cap_rate"].v

\* ------------------------------------------------------------------------
\* Properties of the legacy mortgage script (SpecLegacy)
\* ------------------------------------------------------------------------

\* The five years of the amortization schedule of a loan of principal cents
\* at the script's rate and term: <<principal paid, balance>> of each year.
ScheduleOf(principal) ==
    AmortizeYears[<<principal, pmt(G18, G19 * 12, principal), G18, 5>>]

\* C24: what calculate_cumprinc_for_period returns for year K is the
\* principal paid in year K of the schedule, so more in each year than in
\* the year before, and the mortgage_ending_balance written is the
\* schedule's balance after 60 payments.
C24_CumprincOfSchedule ==
    /\ cumprinc_paid # <<>>
          => LET principal == clacs_out[mortgage_i].cols["cash_equity"].v
             IN principal > 0
                   => \A K \in 1..Len(cumprinc_paid) :
                         /\ cumprinc_paid[K] = ScheduleOf(principal)[K][1]
                         /\ K > 1 => cumprinc_paid[K] > cumprinc_paid[K - 1]
    /\ \A j \in 1..Len(mortgage_out) :
          LET c == mortgage_out[j].cols
          IN (IsNum(c["cash_equity"]) /\ c["cash_equity"].v > 0)
                => c["mortgage_ending_balance"].v = ScheduleOf(c["cash_equity"].v)[5][2]

\* ------------------------------------------------------------------------
\* Properties of the mortgage fields (Spec)
\* ------------------------------------------------------------------------

\* C25: in every output record with yearly mortgage figures the principal
\* paid in the five years plus the balance after year 5 is the loan amount,
\* total_principal_paid is the sum of the five yearly principals, and
\* final_loan_balance is the balance after year 5.
C25_PrincipalPlusBalance ==
    FinalWritten
        => \A i \in 1..Len(final_file) :
              LET c == final_file[i].cols
                  paid == c["principal_paid_year1"].v + c["principal_paid_year2"].v
                             + c["principal_paid_year3"].v + c["principal_paid_year4"].v
                             + c["principal_paid_year5"].v
              IN IsNum(c["principal_paid_year1"])
                    => /\ \A k \in {"principal_paid_year5", "loan_balance_year5",
                                    "total_principal_paid", "final_loan_balance",
                                    "loan_amount"} : IsNum(c[k])
                       /\ paid + c["loan_balance_year5"].v = c["loan_amount"].v
                       /\ c["total_principal_paid"].v = paid
                       /\ c["final_loan_balance"] = c["loan_balance_year5"]

\* The final file holds a record whose principal paid rises from year 1 to
\* year 5 and leaves a balance.
C25_Witness ==
    /\ FinalWritten
    /\ \E i \in 1..Len(final_file) :
          LET c == final_file[i].cols
          IN /\ IsNum(c["principal_paid_year1"])
             /\ c["principal_paid_year1"].v > 0
             /\ c["principal_paid_year5"].v > c["principal_paid_year1"].v
             /\ c["loan_balance_year5"].v > 0

\* The output record i has a positive list price and a rent estimate.
Estimated(i) ==
    /\ IsNum(final_file[i].cols["list_price"])
    /\ final_file[i].cols["list_price"].v > 0
    /\ IsNum(final_file[i].cols["zori_monthly_rent"])

\* C26: in every output record with a positive list price and a rent
\* estimate, cash_equity plus loan_amount is list_price plus
\* transaction_cost.
C26_EquityPlusLoan ==
    FinalWritten
        => \A i \in 1..Len(final_file) :
              LET c == final_file[i].cols
              IN Estimated(i)
                    => /\ IsNum(c["cash_equity"]) /\ IsNum(c["loan_amount"])
                       /\ c["cash_equity"].v + c["loan_amount"].v
                             = c["list_price"].v + c["transaction_cost"].v

\* C27: in every output record that has a loan amount, records without a
\* rent estimate or without cash-flow metrics included, the loan amount is
\* at most 70% of list_price plus transaction_cost.
C27_LoanAtMostSeventyPercent ==
    FinalWritten
        => \A i \in 1..Len(final_file) :
              LET c == final_file[i].cols
              IN IsNum(c["loan_amount"])
                    => c["loan_amount"].v
                          <= MulDiv(c["list_price"].v + c["transaction_cost"].v, 70, 100)

\* ------------------------------------------------------------------------
\* The neighborhood factor across the stages (Spec)
\* ------------------------------------------------------------------------

\* C28: in every financed output record with a rent estimate one
\* neighborhood factor, that of the property's zip, gives the interest rate
\* and the loan term of the record and the growth rate of its rent, also
\* when the rent is that of the closest zip of the index.
C28_OneNeighborhoodFactor ==
    FinalWritten
        => \A i \in 1..Len(final_file) :
              LET c == final_file[i].cols
                  own_zip == c["zip_code"].v \div 100
                  neighborhood_factor == get_neighborhood_factor(own_zip)
                  terms == determine_mortgage_terms(c["list_price"].v, neighborhood_factor)
              IN (Financed(i) /\ Estimated(i) /\ c["zip_code"] # Bad)
                    => /\ c["interest_rate"].v = terms[1]
                       /\ c["loan_term"].v = terms[2] * 100
                       /\ c["zori_growth_rate"].v
                             = calculate_growth_rate(ResolveZip(own_zip, index),
                                                     neighborhood_factor,
                                                     final_file[i].style,
                                                     index.growth_rates_by_zip)

\* ------------------------------------------------------------------------
\* The IRR against the cash-on-cash multiple (Spec)
\* ------------------------------------------------------------------------

\* C29: of two output records with positive cash equity the one with the
\* lower cash_on_cash, zero and negative ones included, never has the higher
\* irr.
C29_IrrMonotone ==
    FinalWritten
        => \A i, j \in 1..Len(final_file) :
              LET a == final_file[i].cols
                  b == final_file[j].cols
              IN (/\ Financed(i) /\ Financed(j)
                  /\ HasEquity(i) /\ HasEquity(j)
                  /\ a["cash_equity"].v > 0 /\ b["cash_equity"].v > 0
                  /\ a["cash_on_cash"].v < b["cash_on_cash"].v)
                    => a["irr"].v <= b["irr"].v

\* ------------------------------------------------------------------------
\* The state average as a base rent (Spec)
\* ------------------------------------------------------------------------

\* C30: under the index of this run or of one of the rent tables some
\* property row with a zip code that parses gets no zip of the index, not
\* even a closest one, while its state has an average rent: the state
\* average is its base rent.
C30_StateAverageReachable ==
    \E ix \in {index} \cup {load_zori_data(ZoriTables[t]) : t \in 1..Len(ZoriTables)} :
        /\ ix.ok
        /\ \E row \in PropertyRows :
              /\ row.cols["zip_code"] # Bad
              /\ ResolveZip(FloatOr0(row.cols, "zip_code") \div 100, ix) = NoZip
              /\ row.state \in DOMAIN ix.state_averages

====
